---- MODULE Spec2Model ----
(***************************************************************************)
(* The per-call session orchestrator of the IVR server: the activeCalls    *)
(* table, the asynchronous webhook handlers with their suspension points   *)
(* (every await of the source is a step boundary of a task that keeps the  *)
(* `call` snapshot it read before suspending), the setTimeout timers, and  *)
(* the notifications the call-control provider may still deliver.          *)
(*                                                                         *)
(* The program modelled is the latest revision of the server               *)
(* (src/unnamed/part_001).  The inactivity watchdog only exists in an      *)
(* older revision (second file of src/unnamed/part_000); it is modelled by *)
(* the definitions whose names end in B.                                   *)
(***************************************************************************)
EXTENDS Integers, Sequences, FiniteSets, TLC

VARIABLES
  activeCalls,   \* const activeCalls = new Map(): call id -> session record
  tasks,         \* suspended async handlers, each with its captured snapshot
  timers,        \* pending setTimeout callbacks
  net,           \* notifications the provider may still deliver
  gw,            \* provider side of each call leg: "new", "live" (ringing),
                 \* "up" (answered), "ended"
  obs,           \* what the last step did: handler, call, commands issued
  hist,          \* history counters derived from obs (observer only)
  log,           \* per-call command log (observer only, kept by SpecPaths)
  scn,           \* the inputs the environment draws from (fixed by Init)
  quota,         \* what the environment may still do: redeliveries, caller inputs
  inactivityTimeouts,  \* const inactivityTimeouts = new Map(): call id -> timer (0: no entry)
  clock          \* time in units of 5 s (only moves in the timed scenario)

vars == <<activeCalls, tasks, timers, net, gw, obs, hist, log, scn, quota,
          inactivityTimeouts, clock>>

(***************************************************************************)
(* Bounds of the model.                                                    *)
(***************************************************************************)
MaxTasks == 2        \* handlers suspended at the same time
MaxTimers == 3       \* pending timers at the same time
MaxDup == 1          \* times the provider delivers one kind of notification again
MaxInputs == 3       \* digit collections the caller answers
MaxKeys == 3         \* raw digits the caller presses
MaxAttempt == 2      \* transfer attempts explored
MaxWatch == 3        \* inactivity timers pending at the same time
MaxClock == 12       \* units of 5 s the timed scenario lasts

(***************************************************************************)
(* Program constants.                                                      *)
(***************************************************************************)
LimiteExpedientes == 10      \* expedientesConsultados >= 10
LimiteConsultas == 2         \* consultasPorExpediente.get(digits) >= 2
LimiteIntentos == 2          \* updatedCall.intentos >= 2
MAX_TRANSFER_ATTEMPTS == 3   \* const MAX_TRANSFER_ATTEMPTS = 3 (part_000 only)

Calls == {"c1", "c2"}
NUMERO_SOPORTE == "soporte"

NoExp == <<"-">>
EmptyMap == [k \in {} |-> 0]
Get(m, d) == IF d \in DOMAIN m THEN m[d] ELSE 0
Put(m, d, v) == [k \in (DOMAIN m) \cup {d} |-> IF k = d THEN v ELSE m[k]]

NoCall == [present |-> FALSE]

\* The session object handleIncomingCall stores (lastActivity, startTime and
\* state are written but never read, and are left out).
NewSession ==
  [present |-> TRUE,
   gatheringDigits |-> FALSE,
   etapa |-> "esperando_expediente",
   intentos |-> 0,
   expedientesConsultados |-> 0,
   expediente |-> NoExp,
   estatus |-> "null",
   consultasPorExpediente |-> EmptyMap,
   bargeInBuffer |-> <<>>,
   bargeInTimestamp |-> 0,
   transferPending |-> FALSE,
   transferIniciada |-> FALSE,
   transferEnCurso |-> FALSE,
   transferExitosa |-> FALSE,
   transferFallida |-> FALSE,
   transferIntento |-> 0,
   transferTimeoutId |-> 0,
   maxDurationTimeoutId |-> 0,
   finalizandoPorDuracionMaxima |-> FALSE,
   suppressionStopped |-> FALSE]

Has(c) == activeCalls[c].present

(***************************************************************************)
(* Tasks and timers.                                                       *)
(***************************************************************************)
Task(tid, pc, c, call, digits, attempt, id) ==
  [tid |-> tid, pc |-> pc, c |-> c, call |-> call, digits |-> digits,
   attempt |-> attempt, id |-> id]

FreeTids == {i \in 1..MaxTasks : \A t \in tasks : t.tid # i}
CanSpawn == FreeTids # {}
NewTid == CHOOSE i \in FreeTids : \A j \in FreeTids : i <= j

Timer(id, kind, c, attempt, estatus, due) ==
  [id |-> id, kind |-> kind, c |-> c, attempt |-> attempt, estatus |-> estatus,
   due |-> due]

\* The delay of each kind of setTimeout in units of 5 s, rounded up:
\* INACTIVITY_TIMEOUT = 30000, hangups after 5000 or 3000, the barge-in
\* window of 3000; the menu is presented again after 250 ms.
Ticks(kind) ==
  CASE kind = "inactivity" -> 6
    [] kind = "menu" -> 0
    [] OTHER -> 1

\* The instant a timer armed now will fire, and whether timer tm may fire.
DueOf(kind) == IF scn.timed THEN clock + Ticks(kind) ELSE 0
Due(tm) == tm.due <= clock

\* Timer objects still referenced somewhere are never confused with new ones.
IdsOf(call) ==
  IF call.present
  THEN {call.transferTimeoutId, call.maxDurationTimeoutId, call.bargeInTimestamp}
  ELSE {}
UsedIds ==
  {t.id : t \in timers}
    \cup UNION {IdsOf(activeCalls[c]) : c \in Calls}
    \cup UNION {IdsOf(t.call) \cup {t.id} : t \in tasks}
FreeIds == {i \in 1..(3 * MaxTimers + 3) : i \notin UsedIds}
CanArm == Cardinality(timers) < MaxTimers /\ FreeIds # {}
NewId == CHOOSE i \in FreeIds : \A j \in FreeIds : i <= j

ClearTimeout(ts, id) == {t \in ts : t.id # id}

\* Timer objects of the inactivity watchdog: an object the map still refers
\* to is not confused with a new one, even after it has fired.
WatchIds == (3 * MaxTimers + 4)..(3 * MaxTimers + 3 + MaxWatch + 1)
FreeWatchIds ==
  {i \in WatchIds : /\ \A t \in timers : t.id # i
                    /\ \A c \in Calls : inactivityTimeouts[c] # i}
NewWatchId == CHOOSE i \in FreeWatchIds : \A j \in FreeWatchIds : i <= j

(***************************************************************************)
(* Gateway commands and the notifications they cause.                      *)
(***************************************************************************)
Cmd(name, arg) == <<name, arg>>
Alive(c) == gw[c] \in {"live", "up"}

Event(type, c, tag) == [type |-> type, c |-> c, tag |-> tag, left |-> 1]

\* The notifications one command will cause.  A digit collection ends with
\* the digits the caller keys in (d), a duplicate carries the same digits.
EventsOfCmd(c, cmd, d) ==
  CASE cmd[1] = "speak" ->
         IF cmd[2] \in scn.mute THEN {} ELSE {Event("call.speak.ended", c, cmd[2])}
    [] cmd[1] = "gather" -> {Event("call.gather.ended", c, d)}
    [] cmd[1] = "transfer" -> {Event("call.answered", c, NUMERO_SOPORTE)}
    [] cmd[1] = "hangup" -> {Event("call.hangup", c, "hangup")}
    [] OTHER -> {}

EventsOf(c, cmds, d) == UNION {EventsOfCmd(c, cmds[i], d) : i \in 1..Len(cmds)}

\* What the caller may key into a collection: a case number for the
\* open-ended collection (the next one of the script, if the scenario has
\* one), one menu digit for the menu collection.
GatherInputs(cmds) ==
  IF \E i \in 1..Len(cmds) : cmds[i] = Cmd("gather", "expediente")
  THEN IF quota.cases < Len(scn.script)
       THEN {scn.script[quota.cases + 1]}
       ELSE scn.exps
  ELSE IF \E i \in 1..Len(cmds) : cmds[i][1] = "gather"
  THEN scn.ops
  ELSE {<<>>}

HasCmd(cmds, name) == \E i \in 1..Len(cmds) : cmds[i][1] = name

(***************************************************************************)
(* The Case Directory (external): which case numbers exist.                *)
(***************************************************************************)
Concluidos == {<<"1">>, <<"1", "2">>}
EnProceso == {<<"2">>, <<"3">>, <<"4">>, <<"6">>}
Directory(d) ==
  IF d \in Concluidos THEN "Concluido"
  ELSE IF d \in EnProceso THEN "En proceso"
  ELSE "null"

(***************************************************************************)
(* History counters: observers of the steps, never read by the program.    *)
(***************************************************************************)
HistCap == 3
Bump(n) == IF n < HistCap THEN n + 1 ELSE n

InitHist ==
  [c \in Calls |->
     [marks |-> 0,          \* times the transfer was marked exitosa since the last dial
      cancels |-> 0,        \* transfer timeouts call.answered cancelled since the last dial
      fails |-> 0,          \* case lookups that ended absent since the last one found
      anunciado |-> FALSE,  \* speak.ended of the hand-off announcement was processed
      lookups |-> EmptyMap,   \* case number -> obtenerExpediente requests made
      hallados |-> EmptyMap,  \* case number -> requests that returned a record
      tope |-> FALSE,         \* expedientesConsultados was 10 before the last step
      colgadas |-> 0,         \* call.hangup notifications processed
      removidas |-> 0,        \* of those, the ones that found a session to remove
      avisos |-> 0,           \* inactivity notices spoken to the caller
      superados |-> {},       \* pending inactivity timers armed before an input
                              \* that was processed later
      tardio |-> FALSE,       \* one of those timers spoke the inactivity notice
                              \* to a session in the menu stage
      marcados |-> {},        \* attempt numbers the transfer was requested with
      repetido |-> FALSE,     \* one of them was requested a second time
      iniciadas |-> 0,        \* times handleSpeakEnded took the hand-off branch
      contestada |-> FALSE]]  \* call.answered by the support number was processed
                              \* for the stored session after a transfer request

\* The attempt numbers the transfer requests of one step carry.
Intentos(cmds) == {cmds[i][2] : i \in {j \in 1..Len(cmds) : cmds[j][1] = "transfer"}}

\* The case numbers the commands of one step ask the Case Directory for.
Pedidos(cmds) == {cmds[i][2] : i \in {j \in 1..Len(cmds) : cmds[j][1] = "obtenerExpediente"}}

NextHist(op, c, cmds, ev) ==
  [k \in Calls |->
     LET h == hist[k]
         marked == /\ op = "call.answered"
                   /\ activeCalls[k].present /\ activeCalls'[k].present
                   /\ ~activeCalls[k].transferExitosa /\ activeCalls'[k].transferExitosa
         stopped == \E t \in timers : t.id = activeCalls[k].transferTimeoutId
         \* a digit or a finished collection was processed for a stored session
         entrada == /\ op \in {"handleDtmfReceived", "handleGatherEnded"}
                    /\ activeCalls[k].present
         viejos == {t.id : t \in {x \in timers : x.kind = "inactivity" /\ x.c = k}}
         disparado == {t.id : t \in {x \in timers \ timers' : x.kind = "inactivity"}}
         aviso == /\ op = "handleInactivity" /\ Alive(k)
                  /\ HasCmd(cmds, "speak")
         \* handleSpeakEnded cleared transferPending and set transferIniciada
         iniciada == /\ op \in {"call.speak.ended", "handleGatherEnded.reprompt"}
                     /\ activeCalls[k].present /\ activeCalls'[k].present
                     /\ activeCalls[k].transferPending
                     /\ ~activeCalls'[k].transferPending
                     /\ activeCalls'[k].transferIniciada
     IN IF k # c
        THEN [h EXCEPT !.marks = IF marked THEN Bump(@) ELSE @,
                       !.cancels = IF marked /\ stopped THEN Bump(@) ELSE @]
        ELSE [marks |-> IF HasCmd(cmds, "transfer") THEN 0
                        ELSE IF marked THEN Bump(h.marks) ELSE h.marks,
              cancels |-> IF HasCmd(cmds, "transfer") THEN 0
                          ELSE IF marked /\ stopped THEN Bump(h.cancels) ELSE h.cancels,
              fails |-> IF op = "handleGatherEnded.notFound" THEN Bump(h.fails)
                        ELSE IF op = "handleGatherEnded.found" THEN 0 ELSE h.fails,
              anunciado |-> h.anunciado \/ ev = {<<"call.speak.ended", "TRANSFERENCIA">>},
              lookups |-> IF Pedidos(cmds) = {} THEN h.lookups
                          ELSE LET d == CHOOSE x \in Pedidos(cmds) : TRUE
                               IN Put(h.lookups, d, Bump(Get(h.lookups, d))),
              hallados |-> IF op = "handleGatherEnded.found"
                           THEN LET d == activeCalls'[k].expediente
                                IN Put(h.hallados, d, Bump(Get(h.hallados, d)))
                           ELSE h.hallados,
              tope |-> h.tope \/ (activeCalls[k].present /\
                         activeCalls[k].expedientesConsultados >= LimiteExpedientes),
              colgadas |-> IF op = "handleCallHangup" THEN Bump(h.colgadas)
                           ELSE h.colgadas,
              removidas |-> IF op = "handleCallHangup" /\ activeCalls[k].present
                            THEN Bump(h.removidas) ELSE h.removidas,
              avisos |-> IF aviso THEN Bump(h.avisos) ELSE h.avisos,
              superados |-> {i \in h.superados \cup (IF entrada THEN viejos ELSE {}) :
                               \E t \in timers' : t.id = i},
              tardio |-> h.tardio \/
                           /\ aviso /\ disparado \cap h.superados # {}
                           /\ activeCalls[k].etapa = "menu_principal",
              marcados |-> h.marcados \cup Intentos(cmds),
              repetido |-> h.repetido \/ h.marcados \cap Intentos(cmds) # {},
              iniciadas |-> IF iniciada THEN Bump(h.iniciadas) ELSE h.iniciadas,
              contestada |-> h.contestada \/
                               /\ op = "call.answered"
                               /\ ev = {<<"call.answered", NUMERO_SOPORTE>>}
                               /\ h.marcados # {}
                               /\ activeCalls[k].present]]

\* One delivery of notification e uses up one of its deliveries.
Consume(e) ==
  IF e.left > 1
  THEN (net \ {e}) \cup {[e EXCEPT !.left = @ - 1]}
  ELSE net \ {e}

\* The notification whose delivery left netBase (none for a task or timer).
Delivered(netBase) == {<<e.type, e.tag>> : e \in {x \in net : Consume(x) = netBase}}

\* The bookkeeping every step shares: the observation, the notifications the
\* issued commands will cause, and the provider's view of the leg.  A hangup
\* command ends the leg; commands sent to a leg that is not live fail and
\* cause no notification.
Step(op, c, cmds, netBase) ==
  /\ obs' = [op |-> op, c |-> c, cmds |-> cmds, ev |-> Delivered(netBase)]
  /\ LET answered == /\ Alive(c) /\ HasCmd(cmds, "gather")
                     /\ quota.inputs > 0 /\ GatherInputs(cmds) # {}
     IN /\ IF answered
           THEN \E d \in GatherInputs(cmds) : net' = netBase \cup EventsOf(c, cmds, d)
           ELSE net' = IF Alive(c)
                       THEN netBase \cup {e \in EventsOf(c, cmds, <<>>) :
                                             e.type # "call.gather.ended"}
                       ELSE netBase
        /\ quota' = [quota EXCEPT
             !.inputs = IF answered THEN @ - 1 ELSE @,
             !.cases = IF answered /\ GatherInputs(cmds) # scn.ops THEN @ + 1 ELSE @,
             !.keys = IF op = "handleDtmfReceived" THEN @ - 1 ELSE @]
  /\ gw' = IF Alive(c) /\ HasCmd(cmds, "hangup")
            THEN [gw EXCEPT ![c] = "ended"]
            ELSE IF Alive(c) /\ HasCmd(cmds, "answer")
            THEN [gw EXCEPT ![c] = "up"]
            ELSE gw
  /\ hist' = NextHist(op, c, cmds, Delivered(netBase))
  /\ log' = IF log.on
            THEN [log EXCEPT !.seq[c] = @ \o cmds]
            ELSE log
  /\ scn' = scn

\* The provider decides to deliver notification e a second time.
Redeliver(e) ==
  /\ e.left = 1
  /\ e.type \in DOMAIN quota.dups
  /\ quota.dups[e.type] > 0
  /\ net' = (net \ {e}) \cup {[e EXCEPT !.left = 2]}
  /\ quota' = [quota EXCEPT !.dups[e.type] = @ - 1]
  /\ obs' = [op |-> "redeliver", c |-> e.c, cmds |-> <<>>, ev |-> {}]
  /\ UNCHANGED <<activeCalls, tasks, timers, gw, hist, log, scn,
                 inactivityTimeouts, clock>>

(***************************************************************************)
(* Effects: what one synchronous stretch of a handler does.                *)
(***************************************************************************)
Proto(pc, call, digits, attempt, id) ==
  [pc |-> pc, call |-> call, digits |-> digits, attempt |-> attempt, id |-> id]
Arm(kind, attempt, estatus) ==
  [kind |-> kind, attempt |-> attempt, estatus |-> estatus]
Eff(call, cmds, spawn, arm, clear) ==
  [call |-> call, cmds |-> cmds, spawn |-> spawn, arm |-> arm, clear |-> clear]
Nothing(call) == Eff(call, <<>>, {}, {}, {})

NewTidIn(ts) ==
  LET free == {i \in 1..MaxTasks : \A t \in ts : t.tid # i}
  IN CHOOSE i \in free : \A j \in free : i <= j

\* What a step does to the inactivityTimeouts entry of call c:
\*   "keep"    nothing;
\*   "reset"   resetInactivityTimeout: clearTimeout of the entry, if there is
\*             one, a new timer, and the entry set to it;
\*   "delete"  inactivityTimeouts.delete(callId) alone;
\*   "clear"   clearTimeout of the entry, if there is one, and the delete.
WatchCleared(c, w) ==
  IF w \in {"reset", "clear"} THEN {inactivityTimeouts[c]} ELSE {}

WatchArmed(c, w) ==
  IF w = "reset"
  THEN {Timer(NewWatchId, "inactivity", c, 0, "null", DueOf("inactivity"))}
  ELSE {}

WatchEntry(c, w) ==
  CASE w = "reset" -> NewWatchId
    [] w \in {"delete", "clear"} -> 0
    [] OTHER -> inactivityTimeouts[c]

ApplyB(op, c, eff, w, tasksBase, timersBase, netBase) ==
  /\ eff.spawn # {} => Cardinality(tasksBase) < MaxTasks
  /\ eff.arm # {} =>
       /\ Cardinality({t \in timersBase : t.kind # "inactivity" /\ t.c = c}) < MaxTimers
       /\ FreeIds # {}
  /\ w = "reset" =>
       /\ FreeWatchIds # {}
       /\ Cardinality({t \in timersBase : t.kind = "inactivity"} \
                       {t \in timersBase : t.id = inactivityTimeouts[c]}) < MaxWatch
  /\ activeCalls' = [activeCalls EXCEPT ![c] = eff.call]
  /\ tasks' = tasksBase \cup
       {Task(NewTidIn(tasksBase), p.pc, c, p.call, p.digits, p.attempt, p.id) :
          p \in eff.spawn}
  /\ timers' = {t \in timersBase : t.id \notin eff.clear \cup WatchCleared(c, w)}
       \cup {Timer(NewId, a.kind, c, a.attempt, a.estatus, DueOf(a.kind)) :
               a \in eff.arm}
       \cup WatchArmed(c, w)
  /\ inactivityTimeouts' = [inactivityTimeouts EXCEPT ![c] = WatchEntry(c, w)]
  /\ clock' = clock
  /\ Step(op, c, eff.cmds, netBase)

Apply(op, c, eff, tasksBase, timersBase, netBase) ==
  ApplyB(op, c, eff, "keep", tasksBase, timersBase, netBase)

Speak(msg) == Cmd("speak", msg)

(***************************************************************************)
(* The environment: callers and the provider.                              *)
(***************************************************************************)
\* A new call leg reaches the provider, which will notify call.initiated.
Ring(c, to) ==
  /\ gw[c] = "new"
  /\ gw' = [gw EXCEPT ![c] = "live"]
  /\ net' = net \cup {Event("call.initiated", c, to)}
  /\ obs' = [op |-> "ring", c |-> c, cmds |-> <<>>, ev |-> {}]
  /\ UNCHANGED <<activeCalls, tasks, timers, hist, log, scn, quota,
                 inactivityTimeouts, clock>>

\* The caller (or the far end) hangs up: the provider will notify call.hangup.
CallerHangup(c) ==
  /\ Alive(c)
  /\ gw' = [gw EXCEPT ![c] = "ended"]
  /\ net' = net \cup {Event("call.hangup", c, "caller")}
  /\ obs' = [op |-> "callerHangup", c |-> c, cmds |-> <<>>, ev |-> {}]
  /\ UNCHANGED <<activeCalls, tasks, timers, hist, log, scn, quota,
                 inactivityTimeouts, clock>>

\* const transferTracking = new Map(): dialled leg -> original call.  No
\* statement of the program adds an entry.
transferTracking == {}

\* The hangup causes the webhook counts as a failed transfer.
failureCauses == {"timeout", "normal_clearing", "no_answer", "busy"}

\* The leg the gateway dials for the transfer of call c.
DialedLeg(c) == CHOOSE k \in Calls : k # c

\* The support number does not answer the dial of call c: the dialled leg
\* ends and the provider will notify its call.hangup with the cause.
DialedLegEnds(c, cause) ==
  /\ \E e \in net :
       /\ e.type = "call.answered" /\ e.c = c /\ e.tag = NUMERO_SOPORTE
       /\ net' = (net \ {e}) \cup {Event("call.hangup", DialedLeg(c), cause)}
  /\ obs' = [op |-> "dialedLegEnds", c |-> c, cmds |-> <<>>, ev |-> {}]
  /\ UNCHANGED <<activeCalls, tasks, timers, gw, hist, log, scn, quota,
                 inactivityTimeouts, clock>>

(***************************************************************************)
(* handleIncomingCall                                                      *)
(***************************************************************************)
\* webhook 'call.initiated': up to the first await (delay(ANSWER_CALL)).
handleIncomingCall(e) ==
  /\ e.type = "call.initiated"
  /\ IF e.tag = NUMERO_SOPORTE
     THEN Apply("handleIncomingCall", e.c, Nothing(activeCalls[e.c]),
                tasks, timers, Consume(e))
     ELSE Apply("handleIncomingCall", e.c,
                Eff([NewSession EXCEPT !.maxDurationTimeoutId = NewId], <<>>,
                    {Proto("incoming", NoCall, <<>>, 0, NewId)},
                    {Arm("maxDuration", 0, "null")}, {}),
                tasks, timers, Consume(e))

\* What answerCall can return: a leg that is gone only fails.
AnswerResults(c) ==
  IF ~Alive(c) THEN {"422"}
  ELSE IF scn.faults THEN {"ok", "422", "error"}
  ELSE {"ok"}

\* The rest of handleIncomingCall: answerCall returns, then the welcome.
handleIncomingCallAnswer(t, res) ==
  /\ t.pc = "incoming"
  /\ res \in AnswerResults(t.c)
  /\ IF res = "ok"
     THEN Apply("handleIncomingCall.answer", t.c,
                Eff(activeCalls[t.c], <<Cmd("answer", ""), Speak("BIENVENIDA")>>,
                    {}, {}, {}),
                tasks \ {t}, timers, net)
     ELSE Apply("handleIncomingCall.answer", t.c,
                Eff(NoCall, <<Cmd("answer.rejected", "")>>, {}, {},
                    IF res = "422" THEN {t.id} ELSE {}),
                tasks \ {t}, timers, net)

(***************************************************************************)
(* handleCallHangup                                                        *)
(***************************************************************************)
\* A handleCallHangup that does not return when the session is absent but
\* commands the hangup once more.
handleCallHangup_Repeats(e) ==
  /\ e.type = "call.hangup"
  /\ LET call == activeCalls[e.c] IN
     Apply("handleCallHangup", e.c,
           Eff(NoCall, IF call.present THEN <<>> ELSE <<Cmd("hangup", "")>>, {}, {},
               IF call.present
               THEN {call.transferTimeoutId, call.maxDurationTimeoutId} ELSE {}),
           tasks, timers, Consume(e))

\* webhook 'call.hangup' (transferTracking is never filled, so the branch
\* for a dialled leg is never taken).
handleCallHangup(e) ==
  /\ e.type = "call.hangup"
  /\ e.c \notin transferTracking
  /\ LET call == activeCalls[e.c] IN
     IF ~call.present
     THEN Apply("handleCallHangup", e.c, Nothing(call), tasks, timers, Consume(e))
     ELSE Apply("handleCallHangup", e.c,
                Eff(NoCall, <<>>, {}, {},
                    {call.transferTimeoutId, call.maxDurationTimeoutId}),
                tasks, timers, Consume(e))

(***************************************************************************)
(* transferCallWithRetries                                                 *)
(***************************************************************************)
\* From the entry to the first await: the guards, the cleared timeout, and
\* either the retry notice (attempt > 1) or the transfer request itself.
transferCallWithRetriesEff(call, attempt, alive) ==
  IF ~call.present \/ call.transferExitosa
  THEN Nothing(call)
  ELSE IF call.transferEnCurso /\ call.transferIntento = attempt
  THEN Eff(call, <<>>, {}, {}, {call.transferTimeoutId})
  ELSE IF attempt > 1
  THEN IF alive
       THEN Eff(call, <<Speak("REINTENTO")>>,
                {Proto("transfer.notice", call, <<>>, attempt, 0)}, {},
                {call.transferTimeoutId})
       ELSE Eff(call, <<Speak("REINTENTO"), Cmd("transfer", attempt)>>,
                {Proto("transfer.dial", call, <<>>, attempt, 0)}, {},
                {call.transferTimeoutId})
  ELSE Eff(call, <<Cmd("transfer", attempt)>>,
           {Proto("transfer.dial", call, <<>>, attempt, 0)}, {},
           {call.transferTimeoutId})

\* After the retry notice and its 6 s wait: the transfer request.
transferNoticeDone(t) ==
  /\ t.pc = "transfer.notice"
  /\ Apply("transferCallWithRetries.notice", t.c,
           Eff(activeCalls[t.c], <<Cmd("transfer", t.attempt)>>,
               {Proto("transfer.dial", t.call, <<>>, t.attempt, 0)}, {}, {}),
           tasks \ {t}, timers, net)

\* What transferCall can return: a leg that is gone only fails, with the
\* status of a command that is invalid for the state of the call.
DialResults(c) ==
  IF ~Alive(c) THEN {"422"}
  ELSE IF scn.faults THEN {"ok", "422", "error"}
  ELSE {"ok"}

\* transferCall returned: the session is rewritten from the snapshot taken
\* at entry and the 30 s timeout is armed; or the request failed, and the
\* catch does not look at the status.
transferDialed(t, res) ==
  /\ t.pc = "transfer.dial"
  /\ res \in DialResults(t.c)
  /\ IF res = "ok"
     THEN Apply("transferCallWithRetries.dialed", t.c,
                Eff([t.call EXCEPT !.transferIntento = t.attempt,
                                   !.transferEnCurso = TRUE,
                                   !.transferTimeoutId = NewId],
                    <<>>, {}, {Arm("transferTimeout", t.attempt, "null")}, {}),
                tasks \ {t}, timers, net)
     ELSE Apply("transferCallWithRetries.dialed", t.c,
                Eff([t.call EXCEPT !.transferEnCurso = FALSE],
                    <<Cmd("transfer.rejected", res)>>,
                    {Proto("transfer.errWait", NoCall, <<>>, t.attempt, 0)}, {}, {}),
                tasks \ {t}, timers, net)

\* After the 3 s pause that follows a failed request: the next attempt.
transferErrorRetry(t) ==
  /\ t.pc = "transfer.errWait"
  /\ t.attempt + 1 <= MaxAttempt
  /\ Apply("transferCallWithRetries.retry", t.c,
           transferCallWithRetriesEff(activeCalls[t.c], t.attempt + 1, Alive(t.c)),
           tasks \ {t}, timers, net)

\* Whether speakText of the retry notice is accepted: never on a leg that
\* is gone, and not always when gateway requests may fail.
SpeakResults(c) ==
  IF ~Alive(c) THEN {FALSE}
  ELSE IF scn.faults THEN {TRUE, FALSE}
  ELSE {TRUE}

\* The 30 s timeout callback.
transferTimeout(tm) ==
  /\ tm.kind = "transferTimeout"
  /\ LET cur == activeCalls[tm.c] IN
     IF cur.present /\ ~cur.transferExitosa /\ cur.transferEnCurso
     THEN /\ tm.attempt + 1 <= MaxAttempt
          /\ \E spoken \in SpeakResults(tm.c) :
               Apply("transferTimeout", tm.c,
                     transferCallWithRetriesEff(
                       [cur EXCEPT !.transferEnCurso = FALSE, !.transferTimeoutId = 0],
                       tm.attempt + 1, spoken),
                     tasks, timers \ {tm}, net)
     ELSE Apply("transferTimeout", tm.c, Nothing(cur), tasks, timers \ {tm}, net)

(***************************************************************************)
(* webhook 'call.answered'                                                 *)
(***************************************************************************)
\* call.transferEnCurso && !call.transferExitosa
TransferPendiente(call) == call.transferEnCurso /\ ~call.transferExitosa

MarcarExitosa(call) ==
  [call EXCEPT !.transferEnCurso = FALSE, !.transferExitosa = TRUE,
               !.transferTimeoutId = 0]

\* Every session with a transfer in progress is marked, whichever leg the
\* notification names.
callAnswered(e) ==
  /\ e.type = "call.answered"
  /\ LET hit == {k \in Calls : /\ e.tag = NUMERO_SOPORTE
                                /\ activeCalls[k].present
                                /\ TransferPendiente(activeCalls[k])}
     IN /\ activeCalls' = [k \in Calls |->
              IF k \in hit THEN MarcarExitosa(activeCalls[k]) ELSE activeCalls[k]]
        /\ timers' = {t \in timers :
              \A k \in hit : t.id # activeCalls[k].transferTimeoutId}
        /\ UNCHANGED <<tasks, inactivityTimeouts, clock>>
        /\ Step("call.answered", e.c, <<>>, Consume(e))

(***************************************************************************)
(* handleSpeakEnded                                                        *)
(***************************************************************************)
\* The whole function up to its first await.  A collection request sent to
\* a leg that is gone throws: the catch speaks (which throws again) and the
\* inner catch schedules a hangup.
handleSpeakEndedEff(call, alive) ==
  IF ~call.present \/ call.transferExitosa
  THEN Nothing(call)
  ELSE IF call.transferPending /\ ~call.transferIniciada
  THEN Eff([call EXCEPT !.transferPending = FALSE, !.transferIniciada = TRUE],
           <<>>, {Proto("speakEnded.wait", NoCall, <<>>, 1, 0)}, {}, {})
  ELSE IF call.transferIniciada
  THEN Nothing(call)
  ELSE IF call.etapa # "transferencia"
  THEN IF alive
       THEN Eff([call EXCEPT !.gatheringDigits = TRUE],
                <<Cmd("gather", "expediente")>>, {}, {}, {})
       ELSE Eff([call EXCEPT !.gatheringDigits = TRUE],
                <<Cmd("gather", "expediente"), Speak("ERROR_SPEAK_ENDED")>>,
                {}, {Arm("hangup", 0, "null")}, {})
  ELSE Nothing(call)

\* A 'call.speak.ended' case that requests the collection for a call it
\* has no session of.
speakEnded_Unknown(e) ==
  /\ e.type = "call.speak.ended"
  /\ LET call == activeCalls[e.c] IN
     IF ~call.present
     THEN Apply("call.speak.ended", e.c,
                Eff(call, <<Cmd("gather", "expediente")>>, {}, {}, {}),
                tasks, timers, Consume(e))
     ELSE IF call.gatheringDigits
     THEN Apply("call.speak.ended", e.c, Nothing(call), tasks, timers, Consume(e))
     ELSE Apply("call.speak.ended", e.c, handleSpeakEndedEff(call, Alive(e.c)),
                tasks, timers, Consume(e))

\* webhook 'call.speak.ended': skipped while gatheringDigits is set.
speakEnded(e) ==
  /\ e.type = "call.speak.ended"
  /\ LET call == activeCalls[e.c] IN
     IF call.present /\ call.gatheringDigits
     THEN Apply("call.speak.ended", e.c, Nothing(call), tasks, timers, Consume(e))
     ELSE Apply("call.speak.ended", e.c, handleSpeakEndedEff(call, Alive(e.c)),
                tasks, timers, Consume(e))

\* After the 1 s pause of the hand-off branch: the first transfer attempt.
speakEndedTransfer(t) ==
  /\ t.pc = "speakEnded.wait"
  /\ Apply("handleSpeakEnded.transfer", t.c,
           transferCallWithRetriesEff(activeCalls[t.c], 1, Alive(t.c)),
           tasks \ {t}, timers, net)

(***************************************************************************)
(* procesarOpcionMenu                                                      *)
(***************************************************************************)
\* case '5' below the ceiling: { ...call, etapa: 'esperando_expediente',
\* intentos: 0 }
OtroExpediente_KeepsStage(call) ==
  [call EXCEPT !.intentos = 0]

OtroExpediente(call) ==
  [call EXCEPT !.etapa = "esperando_expediente", !.intentos = 0]

\* A spoken answer followed by the timer that presents the menu again; on a
\* leg that is gone the speak throws and so do the two apologies.
Respuesta(cur, msg, estatus, alive) ==
  IF alive
  THEN Eff(cur, <<Speak(msg)>>, {}, {Arm("menu", 0, estatus)}, {})
  ELSE Eff(cur, <<Speak(msg), Speak("ERROR_PROCESAMIENTO"), Speak("ERROR_GENERAL")>>,
           {}, {}, {})

Consulta(call, endpoint, opcion) ==
  Eff(call, <<Cmd(endpoint, call.expediente)>>,
      {Proto("menu.lookup", call, opcion, 0, 0)}, {}, {})

procesarOpcionMenuEff(call, opcion, alive) ==
  IF opcion = <<"1">> THEN Consulta(call, "obtenerExpedienteCosto", opcion)
  ELSE IF opcion = <<"2">> THEN Consulta(call, "obtenerExpedienteUnidadOp", opcion)
  ELSE IF opcion = <<"3">>
  THEN IF call.estatus = "Concluido"
       THEN Consulta(call, "obtenerExpedienteTiempos", opcion)
       ELSE Consulta(call, "obtenerExpedienteUbicacion", opcion)
  ELSE IF opcion = <<"4">>
  THEN IF call.estatus # "Concluido"
       THEN Consulta(call, "obtenerExpedienteTiempos", opcion)
       ELSE Respuesta(call, "", call.estatus, alive)
  ELSE IF opcion = <<"5">>
  THEN IF call.expedientesConsultados >= LimiteExpedientes
       THEN IF alive
            THEN Eff(call, <<Speak("LIMITE_EXPEDIENTES")>>, {},
                     {Arm("hangup", 0, "null")}, {})
            ELSE Eff(call, <<Speak("LIMITE_EXPEDIENTES"), Speak("ERROR_PROCESAMIENTO"),
                             Speak("ERROR_GENERAL")>>, {}, {}, {})
       ELSE IF alive
            THEN Eff(OtroExpediente(call),
                     <<Speak("NUEVO_EXPEDIENTE"), Cmd("gather", "expediente")>>,
                     {}, {}, {})
            ELSE Eff(OtroExpediente(call),
                     <<Speak("NUEVO_EXPEDIENTE"), Speak("ERROR_PROCESAMIENTO"),
                       Speak("ERROR_GENERAL")>>, {}, {}, {})
  ELSE Respuesta(call, "OPCION_INVALIDA", call.estatus, alive)

\* The menu lookup returned (data or absent): options 3 and 4 read fields
\* of the record without testing it, so absent throws into the catch.
menuLookupDone(t, found) ==
  /\ t.pc = "menu.lookup"
  /\ LET cur == activeCalls[t.c]
         alive == Alive(t.c)
         eff ==
           IF t.digits = <<"1">>
           THEN Respuesta(cur, IF found THEN "COSTO" ELSE "NO_INFO_COSTOS",
                          t.call.estatus, alive)
           ELSE IF t.digits = <<"2">>
           THEN Respuesta(cur, IF found THEN "UNIDAD" ELSE "NO_INFO_UNIDAD",
                          t.call.estatus, alive)
           ELSE IF found
           THEN Respuesta(cur, IF t.digits = <<"3">> /\ t.call.estatus # "Concluido"
                               THEN "UBICACION" ELSE "TIEMPOS",
                          t.call.estatus, alive)
           ELSE IF alive
           THEN Eff(cur, <<Speak("ERROR_PROCESAMIENTO")>>, {}, {}, {})
           ELSE Eff(cur, <<Speak("ERROR_PROCESAMIENTO"), Speak("ERROR_GENERAL")>>,
                    {}, {}, {})
     IN Apply("procesarOpcionMenu.lookup", t.c, eff, tasks \ {t}, timers, net)

MenuDe(estatus) == IF estatus = "Concluido" THEN "MENU_CONCLUIDO" ELSE "MENU_EN_PROCESO"

\* The timer that presents the menu again (it does not look at the session).
menuTimeout(tm) ==
  /\ tm.kind = "menu"
  /\ Apply("menuTimeout", tm.c,
           Eff(activeCalls[tm.c], <<Cmd("gather", MenuDe(tm.estatus))>>, {}, {}, {}),
           tasks, timers \ {tm}, net)

\* setTimeout(() => telnyxService.hangupCall(callControlId), ...)
hangupTimeout(tm) ==
  /\ tm.kind = "hangup"
  /\ Apply("hangupTimeout", tm.c,
           Eff(activeCalls[tm.c], <<Cmd("hangup", "")>>, {}, {}, {}),
           tasks, timers \ {tm}, net)

(***************************************************************************)
(* handleGatherEnded                                                       *)
(***************************************************************************)
\* A ceiling was reached: the message, then the scheduled hangup.
Rechazo(call, msg, alive) ==
  IF alive
  THEN Eff(call, <<Speak(msg)>>, {}, {Arm("hangup", 0, "null")}, {})
  ELSE Eff(call, <<Speak(msg), Speak("ERROR_GENERAL")>>, {}, {}, {})

\* From the entry to the first await, given the session it read.
handleGatherEndedEff(call, digits, alive) ==
  IF ~call.present
  THEN Nothing(call)
  ELSE IF call.etapa = "esperando_expediente"
  THEN IF call.expedientesConsultados >= LimiteExpedientes
       THEN Rechazo(call, "LIMITE_EXPEDIENTES", alive)
       ELSE IF Get(call.consultasPorExpediente, digits) >= LimiteConsultas
       THEN Rechazo(call, "EXPEDIENTE_YA_CONSULTADO", alive)
       ELSE Eff(call, <<Cmd("obtenerExpediente", digits)>>,
                {Proto("gather.lookup", call, digits, 0, 0)}, {}, {})
  ELSE IF call.etapa = "menu_principal"
  THEN procesarOpcionMenuEff(call, digits, alive)
  ELSE Nothing(call)

\* webhook 'call.gather.ended'
gatherEnded(e) ==
  /\ e.type = "call.gather.ended"
  /\ Apply("handleGatherEnded", e.c,
           handleGatherEndedEff(activeCalls[e.c], e.tag, Alive(e.c)),
           tasks, timers, Consume(e))

\* obtenerExpediente returned a record: the session is rewritten from the
\* snapshot, the summary is spoken and the menu digit is collected.
Encontrado(call, digits, estatus, alive) ==
  LET consultasActuales == Get(call.consultasPorExpediente, digits)
      nueva == [call EXCEPT
                  !.etapa = "menu_principal",
                  !.expediente = digits,
                  !.estatus = estatus,
                  !.intentos = 0,
                  !.expedientesConsultados = call.expedientesConsultados + 1,
                  !.consultasPorExpediente = Put(@, digits, consultasActuales + 1)]
      mensaje == IF consultasActuales = 1 THEN "SEGUNDA_CONSULTA_ENCONTRADO"
                 ELSE "ENCONTRADO"
  IN IF alive
     THEN Eff(nueva, <<Speak(mensaje), Cmd("gather", MenuDe(estatus))>>, {}, {}, {})
     ELSE Eff(nueva, <<Speak(mensaje), Speak("ERROR_GENERAL")>>, {}, {}, {})

\* obtenerExpediente returned nothing: the re-entry prompt, or the hand-off
\* announcement once intentos reaches 2.  cur is the stored session, which
\* the duplicate-transfer branch leaves as it is.
NoEncontrado(call, cur, alive) ==
  LET updatedCall == [call EXCEPT !.intentos = call.intentos + 1] IN
  IF updatedCall.intentos >= LimiteIntentos
  THEN IF ~call.transferIniciada /\ ~call.transferPending
       THEN Eff([updatedCall EXCEPT !.etapa = "transferencia",
                                    !.gatheringDigits = FALSE,
                                    !.transferPending = TRUE],
                IF alive THEN <<Speak("TRANSFERENCIA")>>
                ELSE <<Speak("TRANSFERENCIA"), Speak("ERROR_GENERAL")>>,
                {}, {}, {})
       ELSE Nothing(cur)
  ELSE IF alive
       THEN Eff(updatedCall, <<Speak("REINGRESO_EXPEDIENTE")>>,
                {Proto("gather.reprompt", NoCall, <<>>, 0, 0)}, {}, {})
       ELSE Eff(updatedCall, <<Speak("REINGRESO_EXPEDIENTE"), Speak("ERROR_GENERAL")>>,
                {}, {}, {})

gatherLookupDone(t) ==
  /\ t.pc = "gather.lookup"
  /\ Apply(IF Directory(t.digits) # "null" THEN "handleGatherEnded.found"
                                            ELSE "handleGatherEnded.notFound", t.c,
           IF Directory(t.digits) # "null"
           THEN Encontrado(t.call, t.digits, Directory(t.digits), Alive(t.c))
           ELSE NoEncontrado(t.call, activeCalls[t.c], Alive(t.c)),
           tasks \ {t}, timers, net)

\* After the re-entry prompt and its short delay: handleSpeakEnded is called
\* directly and reads the session again.
gatherReprompt(t) ==
  /\ t.pc = "gather.reprompt"
  /\ Apply("handleGatherEnded.reprompt", t.c,
           handleSpeakEndedEff(activeCalls[t.c], Alive(t.c)),
           tasks \ {t}, timers, net)

(***************************************************************************)
(* handleDtmfReceived and procesarBargeIn                                  *)
(***************************************************************************)
Includes(buf, ch) == \E i \in 1..Len(buf) : buf[i] = ch

SinTerminador_Keeps(buf) == buf

\* digits.endsWith('#') ? digits.slice(0, -1) : digits
SinTerminador(buf) ==
  IF Len(buf) > 0 /\ buf[Len(buf)] = "#" THEN SubSeq(buf, 1, Len(buf) - 1) ELSE buf

\* procesarBargeIn once the quiet-window test has passed: the buffer is
\* cleared and the digits go to handleGatherEnded, which reads the session
\* just written.
Flush(call, alive) ==
  handleGatherEndedEff([call EXCEPT !.bargeInBuffer = <<>>, !.bargeInTimestamp = 0],
                       SinTerminador(call.bargeInBuffer), alive)

\* handleDtmfReceived up to its first await.  Date.now() of a write is
\* represented by the id of the quiet-window timer armed at the same instant.
handleDtmfReceivedEff(call, digit) ==
  IF ~call.present \/ call.gatheringDigits
  THEN Nothing(call)
  ELSE IF call.etapa = "esperando_expediente" /\ call.bargeInBuffer = <<>>
  THEN Eff(call, <<Cmd("stop_speaking", "")>>,
           {Proto("dtmf.stop", call, <<digit>>, 0, 0)}, {}, {})
  ELSE IF call.bargeInBuffer # <<>>
  THEN IF digit = "#"
       THEN Flush([call EXCEPT !.bargeInBuffer = Append(@, digit)], TRUE)
       ELSE Eff([call EXCEPT !.bargeInBuffer = Append(@, digit),
                             !.bargeInTimestamp = NewId],
                <<>>, {}, {Arm("bargeIn", 0, "null")}, {})
  ELSE Nothing(call)

\* stop_speaking returned (or failed, which is only logged): the buffer is
\* started from the snapshot and the quiet-window timer is armed.
dtmfStoppedEff(call, digits) ==
  Eff([call EXCEPT !.bargeInBuffer = digits, !.bargeInTimestamp = NewId],
      <<>>, {}, {Arm("bargeIn", 0, "null")}, {})

\* webhook 'call.dtmf.received': the caller presses one key.
handleDtmfReceived(c, digit) ==
  /\ gw[c] = "up" \/ (scn.late /\ gw[c] = "ended")
  /\ quota.keys > 0
  /\ Apply("handleDtmfReceived", c, handleDtmfReceivedEff(activeCalls[c], digit),
           tasks, timers, net)

dtmfStopped(t) ==
  /\ t.pc = "dtmf.stop"
  /\ Apply("handleDtmfReceived.stopped", t.c, dtmfStoppedEff(t.call, t.digits),
           tasks \ {t}, timers, net)

\* The quiet-window timer: procesarBargeIn.  The timer was armed 3 s ago; if
\* bargeInTimestamp is the instant it was armed (or null) at least 2 s have
\* passed, otherwise a later digit moved the timestamp and either is possible.
bargeInTimeout(tm, quiet) ==
  /\ tm.kind = "bargeIn"
  /\ LET call == activeCalls[tm.c] IN
     IF ~call.present \/ call.bargeInBuffer = <<>>
     THEN /\ quiet
          /\ Apply("procesarBargeIn", tm.c, Nothing(call), tasks, timers \ {tm}, net)
     ELSE IF call.bargeInTimestamp \in {0, tm.id} \/ Includes(call.bargeInBuffer, "#")
     THEN /\ quiet
          /\ Apply("procesarBargeIn", tm.c, Flush(call, Alive(tm.c)),
                   tasks, timers \ {tm}, net)
     ELSE IF quiet
     THEN Apply("procesarBargeIn", tm.c, Flush(call, Alive(tm.c)),
                tasks, timers \ {tm}, net)
     ELSE Apply("procesarBargeIn", tm.c, Nothing(call), tasks, timers \ {tm}, net)

(***************************************************************************)
(* handleMaxDuration                                                       *)
(***************************************************************************)
\* A max-duration callback that only logs.
handleMaxDuration_Idle(tm) ==
  /\ tm.kind = "maxDuration"
  /\ Apply("handleMaxDuration", tm.c, Nothing(activeCalls[tm.c]),
           tasks, timers \ {tm}, net)

\* The max-duration timer fires: the session is flagged and the running
\* collection is stopped.
handleMaxDuration(tm) ==
  /\ tm.kind = "maxDuration"
  /\ LET call == activeCalls[tm.c] IN
     IF ~call.present
     THEN Apply("handleMaxDuration", tm.c, Nothing(call), tasks, timers \ {tm}, net)
     ELSE Apply("handleMaxDuration", tm.c,
                Eff([call EXCEPT !.finalizandoPorDuracionMaxima = TRUE,
                                 !.gatheringDigits = FALSE],
                    <<Cmd("gather_stop", "")>>,
                    {Proto("maxDuration.stop", NoCall, <<>>, 0, 0)}, {}, {}),
                tasks, timers \ {tm}, net)

\* After gather_stop and the 500 ms pause: the notice.  If speaking throws
\* the catch schedules the hangup.
maxDurationSpeak(t) ==
  /\ t.pc = "maxDuration.stop"
  /\ \E spoken \in SpeakResults(t.c) :
       IF spoken
       THEN Apply("handleMaxDuration.speak", t.c,
                  Eff(activeCalls[t.c], <<Speak("DURACION_MAXIMA")>>,
                      {Proto("maxDuration.spoken", NoCall, <<>>, 0, 0)}, {}, {}),
                  tasks \ {t}, timers, net)
       ELSE Apply("handleMaxDuration.speak", t.c,
                  Eff(activeCalls[t.c],
                      IF Alive(t.c) THEN <<Cmd("speak.rejected", "DURACION_MAXIMA")>>
                      ELSE <<Speak("DURACION_MAXIMA")>>, {},
                      {Arm("hangup", 0, "null")}, {}),
                  tasks \ {t}, timers, net)

\* After the 5 s wait: noise suppression is stopped (the session, read
\* again, is flagged if that worked) and the call is hung up.
maxDurationHangup(t) ==
  /\ t.pc = "maxDuration.spoken"
  /\ LET callData == activeCalls[t.c] IN
     IF Alive(t.c)
     THEN Apply("handleMaxDuration.hangup", t.c,
                Eff(IF callData.present
                    THEN [callData EXCEPT !.suppressionStopped = TRUE]
                    ELSE callData,
                    <<Cmd("suppression_stop", ""), Cmd("hangup", "")>>, {}, {}, {}),
                tasks \ {t}, timers, net)
     ELSE Apply("handleMaxDuration.hangup", t.c,
                Eff(callData, <<Cmd("suppression_stop", ""), Cmd("hangup", "")>>, {},
                    {Arm("hangup", 0, "null")}, {}),
                tasks \ {t}, timers, net)

(***************************************************************************)
(* The revision with the inactivity watchdog (second file of part_000).    *)
(* procesarOpcionMenu, handleDtmfReceived and procesarBargeIn are the same *)
(* text as in the latest revision, and so is handleGatherEnded up to the   *)
(* second failed lookup; what differs is modelled by the definitions       *)
(* below.  The session of this revision has no transfer flags other than   *)
(* transferPending and no maximum-duration timer: those fields keep their  *)
(* initial values.                                                         *)
(***************************************************************************)
\* webhook 'call.initiated': the session is stored and the watchdog armed,
\* up to the first await (delay(ANSWER_CALL)).
handleIncomingCallB(e) ==
  /\ e.type = "call.initiated"
  /\ IF e.tag = NUMERO_SOPORTE
     THEN ApplyB("handleIncomingCall", e.c, Nothing(activeCalls[e.c]), "keep",
                 tasks, timers, Consume(e))
     ELSE ApplyB("handleIncomingCall", e.c,
                 Eff(NewSession, <<>>, {Proto("incomingB", NoCall, <<>>, 0, 0)}, {}, {}),
                 "reset", tasks, timers, Consume(e))

\* The rest of handleIncomingCall: a failed answerCall removes the session
\* and the map entry, and leaves the timer pending.
handleIncomingCallAnswerB(t, res) ==
  /\ t.pc = "incomingB"
  /\ res \in AnswerResults(t.c)
  /\ IF res = "ok"
     THEN ApplyB("handleIncomingCall.answer", t.c,
                 Eff(activeCalls[t.c], <<Cmd("answer", ""), Speak("BIENVENIDA")>>,
                     {}, {}, {}),
                 "keep", tasks \ {t}, timers, net)
     ELSE ApplyB("handleIncomingCall.answer", t.c,
                 Eff(NoCall, <<Cmd("answer.rejected", "")>>, {}, {}, {}),
                 "delete", tasks \ {t}, timers, net)

\* handleSpeakEnded up to its first await: the hand-off branch, or the
\* open-ended collection (a failure of which is only logged).
handleSpeakEndedEffB(call) ==
  IF ~call.present
  THEN Nothing(call)
  ELSE IF call.transferPending
  THEN Eff([call EXCEPT !.transferPending = FALSE], <<>>,
           {Proto("speakEndedB.wait", NoCall, <<>>, 1, 0)}, {}, {})
  ELSE IF call.etapa # "transferencia"
  THEN Eff([call EXCEPT !.gatheringDigits = TRUE],
           <<Cmd("gather", "expediente")>>, {}, {}, {})
  ELSE Nothing(call)

\* Whether handleSpeakEnded reaches its resetInactivityTimeout.
SpeakEndedResets(call) ==
  call.present /\ ~call.transferPending /\ call.etapa # "transferencia"

\* webhook 'call.speak.ended': skipped while gatheringDigits is set.
speakEndedB(e) ==
  /\ e.type = "call.speak.ended"
  /\ LET call == activeCalls[e.c] IN
     IF call.present /\ call.gatheringDigits
     THEN ApplyB("call.speak.ended", e.c, Nothing(call), "keep",
                 tasks, timers, Consume(e))
     ELSE ApplyB("call.speak.ended", e.c, handleSpeakEndedEffB(call),
                 IF SpeakEndedResets(call) THEN "reset" ELSE "keep",
                 tasks, timers, Consume(e))

\* webhook 'call.gather.ended': the watchdog is armed again before anything
\* else is looked at.
gatherEndedB(e) ==
  /\ e.type = "call.gather.ended"
  /\ LET call == activeCalls[e.c] IN
     ApplyB("handleGatherEnded", e.c, handleGatherEndedEff(call, e.tag, Alive(e.c)),
            IF call.present THEN "reset" ELSE "keep",
            tasks, timers, Consume(e))

\* obtenerExpediente returned nothing: this revision starts the hand-off
\* whatever the snapshot says about an earlier one.
NoEncontradoB(call, alive) ==
  LET updatedCall == [call EXCEPT !.intentos = call.intentos + 1] IN
  IF updatedCall.intentos >= LimiteIntentos
  THEN Eff([updatedCall EXCEPT !.etapa = "transferencia",
                               !.gatheringDigits = FALSE,
                               !.transferPending = TRUE],
           IF alive THEN <<Speak("TRANSFERENCIA")>>
           ELSE <<Speak("TRANSFERENCIA"), Speak("ERROR_GENERAL")>>,
           {}, {}, {})
  ELSE IF alive
       THEN Eff(updatedCall, <<Speak("REINGRESO_EXPEDIENTE")>>,
                {Proto("gatherB.reprompt", NoCall, <<>>, 0, 0)}, {}, {})
       ELSE Eff(updatedCall, <<Speak("REINGRESO_EXPEDIENTE"), Speak("ERROR_GENERAL")>>,
                {}, {}, {})

gatherLookupDoneB(t) ==
  /\ t.pc = "gather.lookup"
  /\ ApplyB(IF Directory(t.digits) # "null" THEN "handleGatherEnded.found"
                                             ELSE "handleGatherEnded.notFound", t.c,
            IF Directory(t.digits) # "null"
            THEN Encontrado(t.call, t.digits, Directory(t.digits), Alive(t.c))
            ELSE NoEncontradoB(t.call, Alive(t.c)),
            "keep", tasks \ {t}, timers, net)

\* After the re-entry prompt and its short delay: handleSpeakEnded is called
\* directly and reads the session again.
gatherRepromptB(t) ==
  /\ t.pc = "gatherB.reprompt"
  /\ LET call == activeCalls[t.c] IN
     ApplyB("handleGatherEnded.reprompt", t.c, handleSpeakEndedEffB(call),
            IF SpeakEndedResets(call) THEN "reset" ELSE "keep",
            tasks \ {t}, timers, net)

\* webhook 'call.dtmf.received': the watchdog is armed again for a stored
\* session, then the digit is handled as in the latest revision.
handleDtmfReceivedB(c, digit) ==
  /\ gw[c] = "up"
  /\ quota.keys > 0
  /\ LET call == activeCalls[c] IN
     ApplyB("handleDtmfReceived", c, handleDtmfReceivedEff(call, digit),
            IF call.present THEN "reset" ELSE "keep", tasks, timers, net)

\* The quiet-window timer: procesarBargeIn, whose handleGatherEnded arms the
\* watchdog again.
bargeInTimeoutB(tm, quiet) ==
  /\ tm.kind = "bargeIn"
  /\ Due(tm)
  /\ LET call == activeCalls[tm.c] IN
     IF ~call.present \/ call.bargeInBuffer = <<>>
     THEN /\ quiet
          /\ ApplyB("procesarBargeIn", tm.c, Nothing(call), "keep",
                    tasks, timers \ {tm}, net)
     ELSE IF quiet \/ call.bargeInTimestamp \in {0, tm.id}
                   \/ Includes(call.bargeInBuffer, "#")
     THEN /\ quiet
          /\ ApplyB("procesarBargeIn", tm.c, Flush(call, Alive(tm.c)), "reset",
                    tasks, timers \ {tm}, net)
     ELSE ApplyB("procesarBargeIn", tm.c, Nothing(call), "keep",
                 tasks, timers \ {tm}, net)

\* The timer that presents the menu again.
menuTimeoutB(tm) ==
  /\ tm.kind = "menu"
  /\ Due(tm)
  /\ ApplyB("menuTimeout", tm.c,
            Eff(activeCalls[tm.c], <<Cmd("gather", MenuDe(tm.estatus))>>, {}, {}, {}),
            "keep", tasks, timers \ {tm}, net)

\* handleInactivity up to its await: nothing for an absent session or one
\* being handed off, otherwise the notice (on a leg that is gone speakText
\* throws and the catch only logs).
handleInactivityEff(call, alive) ==
  IF ~call.present
  THEN Nothing(call)
  ELSE IF call.etapa = "transferencia" \/ call.transferPending
  THEN Nothing(call)
  ELSE IF alive
  THEN Eff(call, <<Speak("INACTIVIDAD")>>,
           {Proto("inactivity.spoken", NoCall, <<>>, 0, 0)}, {}, {})
  ELSE Eff(call, <<Speak("INACTIVIDAD")>>, {}, {}, {})

\* The watchdog timer fires, INACTIVITY_TIMEOUT after it was armed.
handleInactivityB(tm) ==
  /\ tm.kind = "inactivity"
  /\ Due(tm)
  /\ ApplyB("handleInactivity", tm.c,
            handleInactivityEff(activeCalls[tm.c], Alive(tm.c)),
            "keep", tasks, timers \ {tm}, net)

\* speakText returned: the hangup is scheduled 5 s ahead and the map entry
\* of the call is deleted, whichever timer it refers to by now.
handleInactivitySpokenB(t) ==
  /\ t.pc = "inactivity.spoken"
  /\ ApplyB("handleInactivity.spoken", t.c,
            Eff(activeCalls[t.c], <<>>, {}, {Arm("hangup", 0, "inactividad")}, {}),
            "delete", tasks \ {t}, timers, net)

(***************************************************************************)
(* transferCallWithRetries and handleTransferFailed of part_000 (the same  *)
(* text in both of its files): at most MAX_TRANSFER_ATTEMPTS attempts,     *)
(* then the abandonment.                                                   *)
(***************************************************************************)
\* handleTransferFailed up to its first await: the timeout of the session
\* it read is cleared, the session marked, the apology spoken; a speak that
\* throws goes to the catch, which schedules the hangup.
handleTransferFailedEffB(call, alive) ==
  IF ~call.present
  THEN Nothing(call)
  ELSE LET marked == [call EXCEPT !.transferEnCurso = FALSE, !.transferFallida = TRUE]
       IN IF alive
          THEN Eff(marked, <<Speak("TRANSFERENCIA_FALLIDA")>>,
                   {Proto("transferFailedB.spoken", NoCall, <<>>, 0, 0)}, {},
                   {call.transferTimeoutId})
          ELSE Eff(marked, <<Speak("TRANSFERENCIA_FALLIDA")>>, {},
                   {Arm("hangup", 0, "transferencia")}, {call.transferTimeoutId})

\* transferCallWithRetries from its entry to the first await: the retry
\* notice for attempt > 1 (if it throws the request follows at once), else
\* the transfer request.
transferCallWithRetriesEffB(call, attempt, alive) ==
  IF ~call.present
  THEN Nothing(call)
  ELSE IF attempt > 1 /\ alive
  THEN Eff(call, <<Speak("REINTENTO")>>,
           {Proto("transferB.notice", call, <<>>, attempt, 0)}, {}, {})
  ELSE Eff(call,
           IF attempt > 1 THEN <<Speak("REINTENTO"), Cmd("transfer", attempt)>>
           ELSE <<Cmd("transfer", attempt)>>,
           {Proto("transferB.dial", call, <<>>, attempt, 0)}, {}, {})

\* After the 1 s pause of handleSpeakEnded's hand-off branch.
speakEndedTransferB(t) ==
  /\ t.pc = "speakEndedB.wait"
  /\ ApplyB("handleSpeakEnded.transfer", t.c,
            transferCallWithRetriesEffB(activeCalls[t.c], 1, Alive(t.c)),
            "keep", tasks \ {t}, timers, net)

\* After the retry notice and its 6 s wait: the transfer request.
transferNoticeDoneB(t) ==
  /\ t.pc = "transferB.notice"
  /\ ApplyB("transferCallWithRetries.notice", t.c,
            Eff(activeCalls[t.c], <<Cmd("transfer", t.attempt)>>,
                {Proto("transferB.dial", t.call, <<>>, t.attempt, 0)}, {}, {}),
            "keep", tasks \ {t}, timers, net)

\* transferCall returned: the session is rewritten from the snapshot taken
\* at entry and the timeout is armed; or it threw, and the catch starts the
\* next attempt at once or, after the last one, the abandonment.
transferDialedB(t, res) ==
  /\ t.pc = "transferB.dial"
  /\ res \in DialResults(t.c)
  /\ IF res = "ok"
     THEN ApplyB("transferCallWithRetries.dialed", t.c,
                 Eff([t.call EXCEPT !.transferIntento = t.attempt,
                                    !.transferEnCurso = TRUE,
                                    !.transferTimeoutId = NewId],
                     <<>>, {}, {Arm("transferTimeout", t.attempt, "null")}, {}),
                 "keep", tasks \ {t}, timers, net)
     ELSE ApplyB("transferCallWithRetries.dialed", t.c,
                 IF t.attempt < MAX_TRANSFER_ATTEMPTS
                 THEN transferCallWithRetriesEffB(activeCalls[t.c], t.attempt + 1,
                                                  Alive(t.c))
                 ELSE handleTransferFailedEffB(activeCalls[t.c], Alive(t.c)),
                 "keep", tasks \ {t}, timers, net)

\* The timeout callback of one attempt.
transferTimeoutB(tm) ==
  /\ tm.kind = "transferTimeout"
  /\ LET currentCall == activeCalls[tm.c] IN
     ApplyB("transferTimeout", tm.c,
            IF ~currentCall.present \/ ~currentCall.transferEnCurso
            THEN Nothing(currentCall)
            ELSE IF tm.attempt < MAX_TRANSFER_ATTEMPTS
            THEN transferCallWithRetriesEffB(currentCall, tm.attempt + 1, Alive(tm.c))
            ELSE handleTransferFailedEffB(currentCall, Alive(tm.c)),
            "keep", tasks, timers \ {tm}, net)

\* After the apology and its 10 s wait: the hangup; if it throws the catch
\* schedules another.
transferFailedHangupB(t) ==
  /\ t.pc = "transferFailedB.spoken"
  /\ ApplyB("handleTransferFailed.hangup", t.c,
            Eff(activeCalls[t.c], <<Cmd("hangup", "transferencia")>>, {},
                IF Alive(t.c) THEN {} ELSE {Arm("hangup", 0, "transferencia")}, {}),
            "keep", tasks \ {t}, timers, net)

\* What hangupCall can return: the request may be rejected.
HangupResults(c) ==
  IF ~Alive(c) THEN {"error"}
  ELSE IF scn.faults THEN {"ok", "error"}
  ELSE {"ok"}

\* setTimeout(() => telnyxService.hangupCall(callControlId), ...): a rejected
\* request leaves the leg as it is, and nothing handles the rejection.
hangupTimeoutB(tm, res) ==
  /\ tm.kind = "hangup"
  /\ Due(tm)
  /\ res \in HangupResults(tm.c)
  /\ ApplyB("hangupTimeout", tm.c,
            Eff(activeCalls[tm.c],
                IF res = "ok" THEN <<Cmd("hangup", tm.estatus)>>
                ELSE <<Cmd("hangup.rejected", tm.estatus)>>, {}, {}, {}),
            "keep", tasks, timers \ {tm}, net)

\* webhook 'call.hangup': the session is removed and the watchdog of the
\* map entry, if there is one, is cancelled.
handleCallHangupB(e) ==
  /\ e.type = "call.hangup"
  /\ ApplyB("handleCallHangup", e.c, Eff(NoCall, <<>>, {}, {}, {}), "clear",
            tasks, timers, Consume(e))

\* Five seconds pass: every timer that was due has fired and no handler is
\* suspended (each await is a request or a pause of at most a second).
Tick ==
  /\ scn.timed
  /\ clock < MaxClock
  /\ tasks = {}
  /\ \A tm \in timers : tm.due > clock
  /\ clock' = clock + 1
  /\ obs' = [op |-> "tick", c |-> obs.c, cmds |-> <<>>, ev |-> {}]
  /\ UNCHANGED <<activeCalls, tasks, timers, net, gw, hist, log, scn, quota,
                 inactivityTimeouts>>

(***************************************************************************)
(* The entry of the webhook: the validation of the request body.           *)
(***************************************************************************)
\* Request bodies: event type and payload at the top level or under data;
\* "" stands for a missing (falsy) member.  The event type is one the
\* switch has no case for.
Bodies ==
  [event_type : {"", "call.other"}, payload : {""} \cup Calls,
   data_event_type : {"", "call.other"}, data_payload : {""} \cup Calls]

\* event.event_type || event?.data?.event_type
EventTypeOf(b) == IF b.event_type # "" THEN b.event_type ELSE b.data_event_type
\* event.payload || event?.data?.payload
PayloadOf(b) == IF b.payload # "" THEN b.payload ELSE b.data_payload

\* A validation that looks at the event type alone.
Invalid_TypeOnly(b) == EventTypeOf(b) = ""

\* !eventType || !payload
Invalid(b) == EventTypeOf(b) = "" \/ PayloadOf(b) = ""

\* app.post('/webhook') for a body that is malformed or of an unhandled
\* type: 400 for the former; for the latter the default case and 200.  A
\* body without payload that passed the validation would throw at
\* payload.call_control_id and get no response.
webhook(b) ==
  /\ obs' = [op |-> IF Invalid(b) THEN "webhook.400"
                    ELSE IF PayloadOf(b) = "" THEN "webhook.throw"
                    ELSE "webhook.200",
             c |-> IF PayloadOf(b) = "" THEN obs.c ELSE PayloadOf(b),
             cmds |-> <<>>, ev |-> {<<"body", b>>}]
  /\ UNCHANGED <<activeCalls, tasks, timers, net, gw, hist, log, scn, quota,
                 inactivityTimeouts, clock>>

(***************************************************************************)
(* The complete system                                                     *)
(***************************************************************************)
InitWith(s) ==
  /\ activeCalls = [c \in Calls |-> NoCall]
  /\ tasks = {}
  /\ timers = {}
  /\ net = {}
  /\ gw = [c \in Calls |-> "new"]
  /\ obs = [op |-> "init", c |-> "c1", cmds |-> <<>>, ev |-> {}]
  /\ hist = InitHist
  /\ log = [on |-> FALSE, seq |-> [c \in Calls |-> <<>>]]
  /\ scn = s
  /\ quota = [dups |-> [t \in s.redeliver |-> s.dups], inputs |-> s.inputs, cases |-> 0,
              keys |-> s.presses]
  /\ inactivityTimeouts = [c \in Calls |-> 0]
  /\ clock = 0

\* The scenario every other one is written from: one caller who keys in
\* nothing, a provider that delivers every notification once.
Quiet ==
  [calls |-> {"c1"},     \* the call legs that ring
   exps |-> {},          \* case numbers the caller may key in
   script |-> <<>>,      \* case numbers the caller keys in first, in this order
   ops |-> {},           \* menu digits the caller may key in
   keys |-> {},          \* raw digits the caller may press while a prompt plays
   presses |-> 0,        \* raw digits the caller presses
   faults |-> FALSE,     \* gateway commands may fail on a live leg
   redeliver |-> {},     \* kinds of notification the provider may deliver again
   dups |-> 0,           \* how often, per kind
   inputs |-> 0,         \* digit collections the caller answers
   mute |-> {},          \* prompts whose speak.ended the provider never reports
   timed |-> FALSE,      \* timers fire in the order of their delays
   late |-> FALSE]       \* raw digits in flight may arrive after the leg ended

Notifications ==
  {"call.initiated", "call.speak.ended", "call.gather.ended", "call.hangup",
   "call.answered"}

Environment ==
  \/ \E c \in scn.calls : Ring(c, "ivr")
  \/ \E c \in scn.calls : CallerHangup(c)
  \/ \E c \in scn.calls, digit \in scn.keys : handleDtmfReceived(c, digit)
  \/ \E e \in net : Redeliver(e)

Webhook ==
  \E e \in net :
    \/ handleIncomingCall(e)
    \/ speakEnded(e)
    \/ gatherEnded(e)
    \/ handleCallHangup(e)
    \/ callAnswered(e)

Resume ==
  \E t \in tasks :
    \/ \E res \in {"ok", "422", "error"} : handleIncomingCallAnswer(t, res)
    \/ gatherLookupDone(t)
    \/ gatherReprompt(t)
    \/ \E found \in BOOLEAN : menuLookupDone(t, found)
    \/ speakEndedTransfer(t)
    \/ transferNoticeDone(t)
    \/ \E res \in {"ok", "422", "error"} : transferDialed(t, res)
    \/ transferErrorRetry(t)
    \/ dtmfStopped(t)
    \/ maxDurationSpeak(t)
    \/ maxDurationHangup(t)

Timeout ==
  \E tm \in timers :
    \/ handleMaxDuration(tm)
    \/ transferTimeout(tm)
    \/ \E quiet \in BOOLEAN : bargeInTimeout(tm, quiet)
    \/ menuTimeout(tm)
    \/ hangupTimeout(tm)

Next == Environment \/ Webhook \/ Resume \/ Timeout

Init ==
  InitWith([Quiet EXCEPT !.exps = {<<"1">>, <<"9">>}, !.ops = {<<"1">>, <<"5">>},
                          !.keys = {"9", "#"}, !.presses = MaxKeys,
                          !.redeliver = Notifications, !.dups = MaxDup,
                          !.inputs = MaxInputs])

Spec == Init /\ [][Next]_vars

(***************************************************************************)
(* The hand-off: failed lookups, the announcement, the dial and its        *)
(* answer, with notifications the provider may deliver twice.              *)
(***************************************************************************)
InitTransfer ==
  InitWith([Quiet EXCEPT !.exps = {<<"9">>},
                          !.redeliver = {"call.gather.ended", "call.answered"},
                          !.dups = MaxDup, !.inputs = MaxInputs])

NextTransfer ==
  \/ \E c \in scn.calls : Ring(c, "ivr")
  \/ \E e \in net : Redeliver(e)
  \/ \E e \in net : handleIncomingCall(e)
  \/ \E t \in tasks : handleIncomingCallAnswer(t, "ok")
  \/ \E e \in net : speakEnded(e)
  \/ \E e \in net : gatherEnded(e)
  \/ \E t \in tasks : gatherLookupDone(t)
  \/ \E t \in tasks : gatherReprompt(t)
  \/ \E t \in tasks : speakEndedTransfer(t)
  \/ \E t \in tasks : transferNoticeDone(t)
  \/ \E t \in tasks : transferDialed(t, "ok")
  \/ \E tm \in timers : transferTimeout(tm)
  \/ \E e \in net : callAnswered(e)

SpecTransfer == InitTransfer /\ [][NextTransfer]_vars

(***************************************************************************)
(* The dialogue: case numbers found and not found, menu option 5, and the  *)
(* hand-off up to its first dial.                                          *)
(***************************************************************************)
InitFlow ==
  InitWith([Quiet EXCEPT !.exps = {<<"1">>, <<"9">>}, !.ops = {<<"5">>},
                          !.redeliver = {"call.speak.ended", "call.gather.ended"},
                          !.dups = MaxDup, !.inputs = MaxInputs])

NextFlow ==
  \/ \E c \in scn.calls : Ring(c, "ivr")
  \/ \E e \in net : Redeliver(e)
  \/ \E e \in net : handleIncomingCall(e)
  \/ \E t \in tasks : handleIncomingCallAnswer(t, "ok")
  \/ \E e \in net : speakEnded(e)
  \/ \E e \in net : gatherEnded(e)
  \/ \E t \in tasks : gatherLookupDone(t)
  \/ \E t \in tasks : gatherReprompt(t)
  \/ \E t \in tasks : speakEndedTransfer(t)

SpecFlow == InitFlow /\ [][NextFlow]_vars

(***************************************************************************)
(* A long call: the caller keeps asking for known cases with menu option   *)
(* 5 until the ceilings are reached.                                       *)
(***************************************************************************)
InitCeiling ==
  InitWith([Quiet EXCEPT
              !.script = <<<<"1">>, <<"1">>, <<"2">>, <<"2">>, <<"3">>, <<"3">>,
                           <<"4">>, <<"4">>, <<"6">>, <<"6">>>>,
              !.exps = {<<"1">>, <<"1", "2">>}, !.ops = {<<"5">>},
              !.redeliver = {"call.gather.ended"}, !.dups = MaxDup,
              !.inputs = 2 * LimiteExpedientes + MaxInputs,
              !.mute = {"ENCONTRADO", "SEGUNDA_CONSULTA_ENCONTRADO", "NUEVO_EXPEDIENTE",
                        "LIMITE_EXPEDIENTES", "EXPEDIENTE_YA_CONSULTADO"}])

NextCeiling ==
  \/ \E c \in scn.calls : Ring(c, "ivr")
  \/ \E e \in net : Redeliver(e)
  \/ \E e \in net : handleIncomingCall(e)
  \/ \E t \in tasks : handleIncomingCallAnswer(t, "ok")
  \/ \E e \in net : speakEnded(e)
  \/ \E e \in net : gatherEnded(e)
  \/ \E t \in tasks : gatherLookupDone(t)
  \/ \E tm \in timers : hangupTimeout(tm)
  \/ \E e \in net : handleCallHangup(e)

SpecCeiling == InitCeiling /\ [][NextCeiling]_vars

(***************************************************************************)
(* Calls that end: the caller hangs up at any moment, answering may fail,  *)
(* the max-duration timer may fire, call.hangup may be delivered twice.    *)
(***************************************************************************)
InitHangup ==
  InitWith([Quiet EXCEPT !.exps = {<<"1">>}, !.ops = {<<"1">>}, !.faults = TRUE,
                          !.redeliver = {"call.hangup"}, !.dups = MaxDup,
                          !.inputs = MaxInputs,
                          !.mute = {"ENCONTRADO", "COSTO", "NO_INFO_COSTOS"}])

NextHangup ==
  \/ \E c \in scn.calls : Ring(c, "ivr")
  \/ \E c \in scn.calls : CallerHangup(c)
  \/ \E e \in net : Redeliver(e)
  \/ \E e \in net : handleIncomingCall(e)
  \/ \E t \in tasks, res \in {"ok", "422", "error"} : handleIncomingCallAnswer(t, res)
  \/ \E e \in net : speakEnded(e)
  \/ \E e \in net : gatherEnded(e)
  \/ \E t \in tasks : gatherLookupDone(t)
  \/ \E t \in tasks, found \in BOOLEAN : menuLookupDone(t, found)
  \/ \E tm \in timers : menuTimeout(tm)
  \/ \E tm \in timers : hangupTimeout(tm)
  \/ \E tm \in timers : handleMaxDuration(tm)
  \/ \E t \in tasks : maxDurationSpeak(t)
  \/ \E t \in tasks : maxDurationHangup(t)
  \/ \E e \in net : handleCallHangup(e)

SpecHangup == InitHangup /\ [][NextHangup]_vars

(***************************************************************************)
(* The same call with call.initiated possibly delivered twice.             *)
(***************************************************************************)
InitReplay ==
  InitWith([Quiet EXCEPT !.exps = {<<"1">>}, !.ops = {<<"1">>},
                          !.redeliver = {"call.initiated"}, !.dups = MaxDup,
                          !.inputs = MaxInputs - 1,
                          !.mute = {"ENCONTRADO", "COSTO", "NO_INFO_COSTOS"}])

SpecReplay == InitReplay /\ [][NextHangup]_vars

(***************************************************************************)
(* Barge-in: the caller presses keys while a prompt plays.                 *)
(***************************************************************************)
InitPaths ==
  InitWith([Quiet EXCEPT !.exps = {<<"9">>},
                          !.keys = {"1", "#"}, !.presses = MaxKeys,
                          !.inputs = 1,
                          !.mute = {"ENCONTRADO", "REINGRESO_EXPEDIENTE"}])

NextPaths ==
  \/ \E c \in scn.calls : Ring(c, "ivr")
  \/ \E e \in net : handleIncomingCall(e)
  \/ \E t \in tasks : handleIncomingCallAnswer(t, "ok")
  \/ \E e \in net : speakEnded(e)
  \/ \E e \in net : gatherEnded(e)
  \/ \E t \in tasks : gatherLookupDone(t)
  \/ \E t \in tasks : gatherReprompt(t)
  \/ \E c \in scn.calls, digit \in scn.keys : handleDtmfReceived(c, digit)
  \/ \E t \in tasks : dtmfStopped(t)
  \/ \E tm \in timers, quiet \in BOOLEAN : bargeInTimeout(tm, quiet)

SpecPaths == InitPaths /\ [][NextPaths]_vars

(***************************************************************************)
(* The watchdog revision, timed: one caller who keys in a case number that *)
(* exists, leaves the menu unanswered and may press raw digits; gateway    *)
(* requests may be rejected.                                               *)
(***************************************************************************)
InitInactivity ==
  InitWith([Quiet EXCEPT !.exps = {<<"1">>}, !.keys = {"1"}, !.presses = 2,
                         !.inputs = 1, !.faults = TRUE, !.timed = TRUE,
                         !.mute = {"ENCONTRADO", "INACTIVIDAD"}])

NextInactivity ==
  \/ \E c \in scn.calls : Ring(c, "ivr")
  \/ Tick
  \/ \E e \in net : handleIncomingCallB(e)
  \/ \E t \in tasks : \E res \in {"ok", "422", "error"} : handleIncomingCallAnswerB(t, res)
  \/ \E e \in net : speakEndedB(e)
  \/ \E e \in net : gatherEndedB(e)
  \/ \E t \in tasks : gatherLookupDoneB(t)
  \/ \E c \in scn.calls : \E d \in scn.keys : handleDtmfReceivedB(c, d)
  \/ \E t \in tasks : dtmfStopped(t)
  \/ \E tm \in timers : \E quiet \in BOOLEAN : bargeInTimeoutB(tm, quiet)
  \/ \E tm \in timers : handleInactivityB(tm)
  \/ \E t \in tasks : handleInactivitySpokenB(t)
  \/ \E tm \in timers : \E res \in {"ok", "error"} : hangupTimeoutB(tm, res)
  \/ \E e \in net : handleCallHangupB(e)

SpecInactivity == InitInactivity /\ [][NextInactivity]_vars

(***************************************************************************)
(* The watchdog revision, timed: one caller who keys in, whenever a case   *)
(* number is collected, one that may not exist.                            *)
(***************************************************************************)
InitWatchdog ==
  InitWith([Quiet EXCEPT !.exps = {<<"1">>, <<"9">>}, !.inputs = LimiteIntentos,
                         !.timed = TRUE,
                         !.mute = {"ENCONTRADO", "INACTIVIDAD", "REINGRESO_EXPEDIENTE"}])

NextWatchdog ==
  \/ \E c \in scn.calls : Ring(c, "ivr")
  \/ Tick
  \/ \E e \in net : handleIncomingCallB(e)
  \/ \E t \in tasks : handleIncomingCallAnswerB(t, "ok")
  \/ \E e \in net : speakEndedB(e)
  \/ \E e \in net : gatherEndedB(e)
  \/ \E t \in tasks : gatherLookupDoneB(t)
  \/ \E t \in tasks : gatherRepromptB(t)
  \/ \E tm \in timers : handleInactivityB(tm)
  \/ \E t \in tasks : handleInactivitySpokenB(t)
  \/ \E tm \in timers : hangupTimeoutB(tm, "ok")
  \/ \E e \in net : handleCallHangupB(e)

SpecWatchdog == InitWatchdog /\ [][NextWatchdog]_vars

(***************************************************************************)
(* The menu: one caller, a concluded case or one in process, and any menu  *)
(* digit, 6 being one the menu does not offer; the Case Directory may have *)
(* nothing for an option.                                                  *)
(***************************************************************************)
InitMenu ==
  InitWith([Quiet EXCEPT !.exps = {<<"1">>, <<"2">>},
                         !.ops = {<<"1">>, <<"2">>, <<"3">>, <<"4">>, <<"6">>},
                         !.inputs = MaxInputs,
                         !.mute = {"ENCONTRADO"}])

NextMenu ==
  \/ \E c \in scn.calls : Ring(c, "ivr")
  \/ \E e \in net : handleIncomingCall(e)
  \/ \E t \in tasks : handleIncomingCallAnswer(t, "ok")
  \/ \E e \in net : speakEnded(e)
  \/ \E e \in net : gatherEnded(e)
  \/ \E t \in tasks : gatherLookupDone(t)
  \/ \E t \in tasks, found \in BOOLEAN : menuLookupDone(t, found)
  \/ \E tm \in timers : menuTimeout(tm)

SpecMenu == InitMenu /\ [][NextMenu]_vars

(***************************************************************************)
(* The hand-off of part_000: one caller whose case number does not exist,  *)
(* a support number that never answers, call.gather.ended possibly         *)
(* delivered twice.                                                        *)
(***************************************************************************)
InitAbandon ==
  InitWith([Quiet EXCEPT !.exps = {<<"9">>}, !.inputs = LimiteIntentos,
                         !.redeliver = {"call.gather.ended"}, !.dups = MaxDup,
                         !.mute = {"REINGRESO_EXPEDIENTE", "REINTENTO",
                                   "TRANSFERENCIA_FALLIDA"}])

NextAbandon ==
  \/ \E c \in scn.calls : Ring(c, "ivr")
  \/ \E e \in net : Redeliver(e)
  \/ \E e \in net : handleIncomingCallB(e)
  \/ \E t \in tasks : handleIncomingCallAnswerB(t, "ok")
  \/ \E e \in net : speakEndedB(e)
  \/ \E e \in net : gatherEndedB(e)
  \/ \E t \in tasks : gatherLookupDoneB(t)
  \/ \E t \in tasks : gatherRepromptB(t)
  \/ \E t \in tasks : speakEndedTransferB(t)
  \/ \E t \in tasks : transferNoticeDoneB(t)
  \/ \E t \in tasks : transferDialedB(t, "ok")
  \/ \E tm \in timers : transferTimeoutB(tm)
  \/ \E t \in tasks : transferFailedHangupB(t)

SpecAbandon == InitAbandon /\ [][NextAbandon]_vars

(***************************************************************************)
(* Malformed and unknown requests arriving during a call.                  *)
(***************************************************************************)
InitWebhook ==
  InitWith([Quiet EXCEPT !.exps = {<<"1">>}, !.ops = {<<"1">>}, !.inputs = MaxInputs - 1,
                          !.mute = {"ENCONTRADO", "COSTO", "NO_INFO_COSTOS"}])

NextWebhook ==
  \/ \E c \in scn.calls : Ring(c, "ivr")
  \/ \E c \in scn.calls : CallerHangup(c)
  \/ \E b \in Bodies : webhook(b)
  \/ \E e \in net : handleIncomingCall(e)
  \/ \E t \in tasks : handleIncomingCallAnswer(t, "ok")
  \/ \E e \in net : speakEnded(e)
  \/ \E e \in net : gatherEnded(e)
  \/ \E t \in tasks : gatherLookupDone(t)
  \/ \E t \in tasks, found \in BOOLEAN : menuLookupDone(t, found)
  \/ \E tm \in timers : menuTimeout(tm)
  \/ \E e \in net : handleCallHangup(e)

SpecWebhook == InitWebhook /\ [][NextWebhook]_vars

(***************************************************************************)
(* Notifications for calls the store does not hold: the caller hangs up    *)
(* while prompts, collections and raw digits are still in flight.          *)
(***************************************************************************)
InitUnknown ==
  InitWith([Quiet EXCEPT !.exps = {<<"1">>}, !.keys = {"1"}, !.presses = MaxKeys - 1,
                          !.inputs = 1, !.late = TRUE,
                          !.redeliver = {"call.hangup"}, !.dups = MaxDup,
                          !.mute = {"ENCONTRADO"}])

NextUnknown ==
  \/ \E c \in scn.calls : Ring(c, "ivr")
  \/ \E c \in scn.calls : CallerHangup(c)
  \/ \E e \in net : Redeliver(e)
  \/ \E e \in net : handleIncomingCall(e)
  \/ \E t \in tasks : handleIncomingCallAnswer(t, "ok")
  \/ \E e \in net : speakEnded(e)
  \/ \E e \in net : gatherEnded(e)
  \/ \E t \in tasks : gatherLookupDone(t)
  \/ \E t \in tasks : gatherReprompt(t)
  \/ \E c \in scn.calls, digit \in scn.keys : handleDtmfReceived(c, digit)
  \/ \E t \in tasks : dtmfStopped(t)
  \/ \E tm \in timers, quiet \in BOOLEAN : bargeInTimeout(tm, quiet)
  \/ \E tm \in timers : hangupTimeout(tm)
  \/ \E e \in net : handleCallHangup(e)

SpecUnknown == InitUnknown /\ [][NextUnknown]_vars

(***************************************************************************)
(* A hand-off that is answered, with the max-duration timer of the call    *)
(* still to fire.                                                          *)
(***************************************************************************)
InitBridge ==
  InitWith([Quiet EXCEPT !.exps = {<<"9">>}, !.inputs = MaxInputs - 1, !.faults = TRUE,
                          !.mute = {"REINGRESO_EXPEDIENTE", "REINTENTO"}])

NextBridge ==
  \/ \E c \in scn.calls : Ring(c, "ivr")
  \/ \E e \in net : handleIncomingCall(e)
  \/ \E t \in tasks : handleIncomingCallAnswer(t, "ok")
  \/ \E e \in net : speakEnded(e)
  \/ \E e \in net : gatherEnded(e)
  \/ \E t \in tasks : gatherLookupDone(t)
  \/ \E t \in tasks : gatherReprompt(t)
  \/ \E t \in tasks : speakEndedTransfer(t)
  \/ \E t \in tasks : transferNoticeDone(t)
  \/ \E t \in tasks, res \in {"ok", "422"} : transferDialed(t, res)
  \/ \E t \in tasks : transferErrorRetry(t)
  \/ \E tm \in timers : transferTimeout(tm)
  \/ \E e \in net : callAnswered(e)
  \/ \E c \in scn.calls, cause \in {"no_answer", "busy"} : DialedLegEnds(c, cause)
  \/ \E tm \in timers : handleMaxDuration(tm)
  \/ \E t \in tasks : maxDurationSpeak(t)
  \/ \E t \in tasks : maxDurationHangup(t)
  \/ \E e \in net : handleCallHangup(e)

SpecBridge == InitBridge /\ [][NextBridge]_vars

(***************************************************************************)
(* The hand-off with every gateway request accepted on a live leg, under   *)
(* a scheduler that always runs some handler, continuation or timer        *)
(* callback that is ready.                                                 *)
(***************************************************************************)
InitLive ==
  InitWith([Quiet EXCEPT !.exps = {<<"9">>}, !.inputs = MaxInputs - 1,
                          !.mute = {"REINGRESO_EXPEDIENTE", "REINTENTO"}])

SpecLive == InitLive /\ [][NextBridge]_vars /\ WF_vars(NextBridge)

(***************************************************************************)
(* Two calls at once, both handed off to the support number.               *)
(***************************************************************************)
InitTwo ==
  InitWith([Quiet EXCEPT !.calls = Calls, !.exps = {<<"9">>}, !.inputs = 2 * LimiteIntentos,
                          !.mute = {"REINGRESO_EXPEDIENTE"}])

NextTwo ==
  \/ \E c \in scn.calls : Ring(c, "ivr")
  \/ \E e \in net : handleIncomingCall(e)
  \/ \E t \in tasks : handleIncomingCallAnswer(t, "ok")
  \/ \E e \in net : speakEnded(e)
  \/ \E e \in net : gatherEnded(e)
  \/ \E t \in tasks : gatherLookupDone(t)
  \/ \E t \in tasks : gatherReprompt(t)
  \/ \E t \in tasks : speakEndedTransfer(t)
  \/ \E t \in tasks : transferDialed(t, "ok")
  \/ \E e \in net : callAnswered(e)

SpecTwo == InitTwo /\ [][NextTwo]_vars

(***************************************************************************)
(* Claims about the hand-off and the case lookups.                         *)
(***************************************************************************)
\* C1: however often call.answered for the support number is delivered for
\* one transfer attempt, the session is marked exitosa at most once and its
\* transfer timeout is cancelled at most once; a later duplicate changes
\* nothing (a duplicate that changes the session is a second mark).
C1_AnsweredOnce ==
  \A c \in Calls : hist[c].marks <= 1 /\ hist[c].cancels <= 1

\* C2: a case number already looked up successfully twice in the call is
\* not looked up again, and the call never asks the Case Directory a third
\* time for the same case number.
C2_NoThirdLookup ==
  /\ \A d \in Pedidos(obs.cmds) : Get(hist[obs.c].hallados, d) < LimiteConsultas
  /\ \A c \in Calls : \A d \in DOMAIN hist[c].lookups :
        hist[c].lookups[d] <= LimiteConsultas

\* C6: when a case lookup ends absent, the first failure of an episode
\* leaves intentos at 1, speaks the re-entry prompt and keeps the stage; the
\* second consecutive failure moves the session to the transfer stage with
\* transferPending set and speaks the hand-off announcement; the session
\* never enters the transfer stage with fewer than two consecutive failures.
C6_TwoFailuresThenTransfer ==
  obs.op = "handleGatherEnded.notFound" =>
    LET call == activeCalls[obs.c]
        fails == hist[obs.c].fails
    IN /\ fails = 1 =>
            /\ call.intentos = 1
            /\ call.etapa = "esperando_expediente"
            /\ obs.cmds = <<Speak("REINGRESO_EXPEDIENTE")>>
       /\ fails = 2 =>
            /\ call.etapa = "transferencia"
            /\ call.transferPending
            /\ obs.cmds = <<Speak("TRANSFERENCIA")>>
       /\ call.etapa = "transferencia" => fails >= 2

\* C7: the transfer request is never sent from the failed-lookup branch,
\* and whenever it is sent the speak.ended notification of the hand-off
\* announcement itself has been processed before.
C7_DialAfterAnnouncement ==
  /\ obs.op = "handleGatherEnded.notFound" => ~HasCmd(obs.cmds, "transfer")
  /\ HasCmd(obs.cmds, "transfer") => hist[obs.c].anunciado

\* C3: once expedientesConsultados of a session has reached 10, no digit
\* submission causes a Case Directory lookup any more.
C3_NoLookupAfterTen ==
  hist[obs.c].tope => Pedidos(obs.cmds) = {}

\* C8: menu digit 5 processed in the menu stage on a live leg: below the
\* ceiling the session changes in etapa (back to awaiting a case number) and
\* intentos (0) only; at the ceiling the session is left as it is, the limit
\* message is spoken and the hangup timer is armed.
C8_OptionFive ==
  [][\A c \in Calls :
       (/\ obs'.op = "handleGatherEnded" /\ obs'.c = c
        /\ obs'.ev = {<<"call.gather.ended", <<"5">>>>}
        /\ activeCalls[c].present /\ activeCalls[c].etapa = "menu_principal"
        /\ Alive(c))
       => IF activeCalls[c].expedientesConsultados < LimiteExpedientes
          THEN activeCalls'[c] = [activeCalls[c] EXCEPT !.etapa = "esperando_expediente",
                                                        !.intentos = 0]
          ELSE /\ activeCalls'[c] = activeCalls[c]
               /\ obs'.cmds = <<Speak("LIMITE_EXPEDIENTES")>>
               /\ \E tm \in timers' \ timers : tm.kind = "hangup" /\ tm.c = c]_vars

\* Option 5 was refused at the ceiling, and before that it was accepted.
C8_Witness ==
  /\ obs.op = "handleGatherEnded"
  /\ obs.ev = {<<"call.gather.ended", <<"5">>>>}
  /\ obs.cmds = <<Speak("LIMITE_EXPEDIENTES")>>
  /\ activeCalls[obs.c].present
  /\ activeCalls[obs.c].etapa = "menu_principal"
  /\ activeCalls[obs.c].expedientesConsultados = LimiteExpedientes

(***************************************************************************)
(* Claims about the end of a call.                                         *)
(***************************************************************************)
\* C4: handling call.hangup leaves no session, and handling it again for a
\* session that is absent changes neither the store nor the timers nor the
\* suspended handlers and issues no command: twice is the same as once.
C4_HangupIdempotent ==
  [][\A c \in Calls :
       (obs'.op = "handleCallHangup" /\ obs'.c = c)
       => /\ ~activeCalls'[c].present
          /\ ~activeCalls[c].present
               => /\ activeCalls' = activeCalls
                  /\ timers' = timers
                  /\ tasks' = tasks
                  /\ obs'.cmds = <<>>]_vars

\* The same call.hangup was processed a second time, after the first one
\* had removed the session.
C4_Witness ==
  /\ obs.op = "handleCallHangup"
  /\ hist[obs.c].colgadas = 2
  /\ hist[obs.c].removidas = 1
  /\ quota.dups["call.hangup"] = 0
  /\ \A e \in net : e.type # "call.hangup"

\* C10: no pending timer (and no retry-notice wait) belongs to a session
\* that is absent from the store.
C10_NoTimerWithoutSession ==
  /\ \A tm \in timers : activeCalls[tm.c].present
  /\ \A t \in tasks : t.pc = "transfer.notice" => activeCalls[t.c].present

(***************************************************************************)
(* The two ways a case number reaches handleGatherEnded.                   *)
(***************************************************************************)
\* The session after the raw digits ds were processed one after the other,
\* each handler running to its end before the next key.
RECURSIVE Teclear(_, _)
Teclear(call, ds) ==
  IF ds = <<>> THEN call
  ELSE LET eff == handleDtmfReceivedEff(call, Head(ds))
           next == IF eff.spawn = {} THEN eff.call
                   ELSE dtmfStoppedEff((CHOOSE p \in eff.spawn : TRUE).call,
                                       <<Head(ds)>>).call
       IN Teclear(next, Tail(ds))

\* ds as raw digits followed by the terminator / ds as payload.digits.
PorTeclas(call, ds) == handleDtmfReceivedEff(Teclear(call, ds), "#")
PorGather(call, ds) == handleGatherEndedEff(call, ds, TRUE)

Audible(cmd) == cmd[1] \in {"speak", "gather"}

\* Where a submission ends once its lookup (if one was started) returned:
\* the stage, the counters, and the prompts and collections commanded.
Desenlace(eff) ==
  LET ps == {p \in eff.spawn : p.pc = "gather.lookup"}
      fin == IF ps = {} THEN eff
             ELSE LET p == CHOOSE q \in ps : TRUE
                  IN IF Directory(p.digits) # "null"
                     THEN Encontrado(p.call, p.digits, Directory(p.digits), TRUE)
                     ELSE NoEncontrado(p.call, eff.call, TRUE)
  IN [etapa |-> fin.call.etapa,
      intentos |-> fin.call.intentos,
      expedientesConsultados |-> fin.call.expedientesConsultados,
      consultasPorExpediente |-> fin.call.consultasPorExpediente,
      dicho |-> SelectSeq(IF ps = {} THEN eff.cmds ELSE eff.cmds \o fin.cmds, Audible)]

Secuencias == {<<"1">>, <<"9">>, <<"1", "2">>, <<"9", "9">>}

C9_WatchdogNoticeThenHangup ==
  /\ obs.op = "handleInactivity" => ~HasCmd(obs.cmds, "hangup")
  /\ (obs.op = "hangupTimeout" /\ obs.cmds = <<Cmd("hangup", "inactividad")>>)
       => hist[obs.c].avisos > 0
  /\ \A c \in Calls : ~hist[c].tardio

(***************************************************************************)
(* Claims about sessions that have ended.                                  *)
(***************************************************************************)
\* The requests a step sends to the gateway for a call leg.
Issued(cmds) ==
  {cmds[i][1] : i \in 1..Len(cmds)} \cap
    {"speak", "gather", "gather_stop", "stop_speaking", "suppression_stop",
     "transfer", "hangup"}

\* C11: once call.hangup has been processed and has removed the session of a
\* call, no step issues a gateway command (speak, gather, stop, transfer,
\* hangup) for that call: timer callbacks armed earlier and handlers that
\* were suspended on an await do nothing.
C11_SilentAfterEnd ==
  (obs.op # "handleCallHangup" /\ hist[obs.c].removidas > 0)
    => Issued(obs.cmds) = {}

\* C12: once call.hangup has removed the session of a call, the call stays
\* absent from activeCalls (no new call.initiated arrives for it): no
\* handler or timer callback that captured the session before an await
\* writes it back after resuming.
C12_NoResurrection ==
  \A c \in Calls : hist[c].removidas > 0 => ~activeCalls[c].present

(***************************************************************************)
(* Claims about the transfer attempts.                                     *)
(***************************************************************************)
\* C13: for every session and every attempt number n the transfer request
\* is sent at most once with attempt n, whatever the interleaving of
\* duplicate speak.ended notifications, transfer timeouts and failed-lookup
\* handlers running at the same time; so no two transfer requests of one
\* session are in flight together.
C13_OneDialPerAttempt ==
  \A c \in Calls :
    /\ ~hist[c].repetido
    /\ Cardinality({t \in tasks : t.c = c /\ t.pc = "transfer.dial"}) <= 1

\* C14: the move from the announced hand-off to the transfer happens at most
\* once per session: once a speak.ended has cleared transferPending and set
\* transferIniciada, no later or duplicate speak.ended of the session starts
\* a transfer sequence again or requests a digit collection.
C14_HandOffOnce ==
  /\ \A c \in Calls : hist[c].iniciadas <= 1
  /\ (obs.op = "call.speak.ended" /\ hist[obs.c].iniciadas > 0)
       => ~HasCmd(obs.cmds, "gather")

(***************************************************************************)
(* Claims about requests the webhook does not act on.                      *)
(***************************************************************************)
\* C15: a request whose body lacks the event type or the payload is answered
\* with status 400, and its processing creates, changes and removes no
\* session, arms no timer and issues no gateway command.
C15_MalformedRejected ==
  [][\A b \in Bodies :
       (obs'.ev = {<<"body", b>>} /\ (EventTypeOf(b) = "" \/ PayloadOf(b) = ""))
         => /\ obs'.op = "webhook.400"
            /\ obs'.cmds = <<>>
            /\ UNCHANGED <<activeCalls, timers, tasks, inactivityTimeouts>>]_vars

\* A body with an event type but no payload was rejected while a session
\* with a pending timer was stored.
C15_Witness ==
  /\ obs.op = "webhook.400"
  /\ \E b \in Bodies : obs.ev = {<<"body", b>>} /\ EventTypeOf(b) # "" /\ PayloadOf(b) = ""
  /\ activeCalls["c1"].present
  /\ timers # {}

\* C16: a speak.ended, gather.ended, raw-digit or call.hangup notification
\* whose call is not in activeCalls makes its handler return without a
\* gateway or Case Directory request and without adding or changing a
\* session.
C16_UnknownIgnored ==
  [][(/\ obs'.op \in {"call.speak.ended", "handleGatherEnded",
                      "handleDtmfReceived", "handleCallHangup"}
      /\ ~activeCalls[obs'.c].present)
       => /\ obs'.cmds = <<>>
          /\ UNCHANGED <<activeCalls, tasks, timers>>]_vars

\* A finished collection was notified for a call whose session call.hangup
\* had removed.
C16_Witness ==
  /\ obs.op = "handleGatherEnded"
  /\ hist[obs.c].removidas > 0
  /\ ~activeCalls[obs.c].present

(***************************************************************************)
(* Claims about timers.                                                    *)
(***************************************************************************)
\* C17: in every reachable state a session has at most one live timer per
\* purpose (max duration, inactivity, transfer timeout, barge-in quiet
\* window): when a timer of a purpose is armed, the previous one has been
\* cancelled or has fired.
C17_OneTimerPerPurpose ==
  \A c \in Calls, k \in {"maxDuration", "inactivity", "transferTimeout", "bargeIn"} :
    Cardinality({t \in timers : t.c = c /\ t.kind = k}) <= 1

(***************************************************************************)
(* Claims about finished collections.                                      *)
(***************************************************************************)
\* C18: a call.gather.ended notification is ignored (no lookup, no menu
\* dispatch, no change of state) when the stage of the session is no longer
\* the one its collection was started in: digits collected for the case
\* number are never taken as a menu option, nor a menu digit as a case
\* number.
C18_StaleCollectionIgnored ==
  [][\A ds \in scn.exps \cup scn.ops :
       (/\ obs'.op = "handleGatherEnded"
        /\ obs'.ev = {<<"call.gather.ended", ds>>}
        /\ activeCalls[obs'.c].present
        /\ activeCalls[obs'.c].etapa #
             (IF ds \in scn.ops THEN "menu_principal" ELSE "esperando_expediente"))
         => /\ obs'.cmds = <<>>
            /\ UNCHANGED <<activeCalls, tasks, timers>>]_vars

\* C19: every call.answered of the support number processed after the
\* transfer request of the current attempt was sent, the session being
\* stored, leaves the transfer marked exitosa and no transfer timeout of the
\* call pending, and no transfer request is sent for the session afterwards;
\* also when the handler that sent the request is still suspended or a retry
\* notice is being waited out.
C19_AnswerMarksSuccess ==
  /\ (/\ obs.op = "call.answered"
      /\ obs.ev = {<<"call.answered", NUMERO_SOPORTE>>}
      /\ hist[obs.c].contestada
      /\ activeCalls[obs.c].present)
       => /\ activeCalls[obs.c].transferExitosa
          /\ \A t \in timers : ~(t.c = obs.c /\ t.kind = "transferTimeout")
  /\ HasCmd(obs.cmds, "transfer") => ~hist[obs.c].contestada

\* C20: once the transfer of a session is marked exitosa no watchdog acts on
\* it: neither the max-duration timer nor the inactivity timer speaks a
\* notice or commands the hangup of that session.
C20_NoWatchdogAfterSuccess ==
  (/\ obs.op \in {"handleMaxDuration", "handleMaxDuration.speak",
                  "handleMaxDuration.hangup", "handleInactivity",
                  "handleInactivity.spoken"}
   /\ activeCalls[obs.c].present
   /\ activeCalls[obs.c].transferExitosa)
    => Issued(obs.cmds) \cap {"speak", "hangup"} = {}

\* C21: a transfer request with an attempt number above 1 is sent only by
\* the step that follows the retry notice and its wait, never together with
\* or in place of the notice, also when speakText fails; the first attempt
\* is requested without a notice.
C21_NoticeBeforeRedial ==
  /\ (\E n \in Intentos(obs.cmds) : n > 1)
       => /\ obs.op = "transferCallWithRetries.notice"
          /\ ~HasCmd(obs.cmds, "speak")
  /\ 1 \in Intentos(obs.cmds) => ~HasCmd(obs.cmds, "speak")

\* C22: both failure signals of a transfer attempt lead to the retry with
\* the next attempt number: the timeout firing while the transfer is in
\* progress sends the retry notice or the transfer of attempt + 1, and the
\* call.hangup of the dialled leg with a failure cause, processed before
\* any answer, leaves no transfer timeout of the original session pending.
C22_FailureSignalsRetry ==
  /\ (obs.op = "transferTimeout" /\ obs.cmds # <<>>)
       => \/ HasCmd(obs.cmds, "transfer")
          \/ \E t \in tasks : t.pc = "transfer.notice" /\ t.c = obs.c
  /\ \A c \in scn.calls :
       (/\ obs.op = "handleCallHangup"
        /\ obs.c = DialedLeg(c)
        /\ \E cause \in failureCauses : obs.ev = {<<"call.hangup", cause>>}
        /\ activeCalls[c].present
        /\ TransferPendiente(activeCalls[c]))
         => \A t \in timers : ~(t.c = c /\ t.kind = "transferTimeout")

(***************************************************************************)
(* Claims about the sessions of different calls.                           *)
(***************************************************************************)
\* C23: processing a notification changes the session and the timers of at
\* most one call, the one the notification names; in particular a
\* call.answered for one of two sessions waiting for their transfer to be
\* answered leaves the transfer state and the transfer timeout of the other
\* unchanged.
C23_OneSessionPerNotification ==
  [][\A k \in Calls :
       k # obs'.c => /\ activeCalls'[k] = activeCalls[k]
                     /\ {t \in timers' : t.c = k} = {t \in timers : t.c = k}]_vars

(***************************************************************************)
(* Claims about writes after an await.                                     *)
(***************************************************************************)
\* C24: a handler that resumes after an await never overwrites the session
\* with a stale snapshot; in particular, after n lookups of a call have
\* returned a record, expedientesConsultados is n and the counts of
\* consultasPorExpediente are, case by case, the numbers of records
\* returned, whatever the interleaving of the lookups.
C24_NoLostUpdate ==
  \A c \in Calls :
    LET h == hist[c].hallados
        call == activeCalls[c]
        RECURSIVE Suma(_)
        Suma(D) == IF D = {} THEN 0
                   ELSE LET d == CHOOSE x \in D : TRUE IN h[d] + Suma(D \ {d})
    IN (call.present /\ \A d \in DOMAIN h : h[d] < HistCap)
         => /\ call.expedientesConsultados = Suma(DOMAIN h)
            /\ \A d \in DOMAIN h : Get(call.consultasPorExpediente, d) = h[d]

(***************************************************************************)
(* Claims about gatheringDigits and the barge-in buffer.                   *)
(***************************************************************************)
\* C25: gatheringDigits is true exactly while a digit collection is
\* outstanding at the gateway: a step that requests a collection leaves it
\* set, and once the call.gather.ended of the collection has been processed
\* (no other collection requested, none left to be notified) it is false.
C25_FlagFollowsCollection ==
  LET call == activeCalls[obs.c] IN
  /\ (call.present /\ Alive(obs.c) /\ HasCmd(obs.cmds, "gather"))
       => call.gatheringDigits
  /\ (/\ obs.op = "handleGatherEnded"
      /\ call.present
      /\ ~HasCmd(obs.cmds, "gather")
      /\ \A e \in net : ~(e.type = "call.gather.ended" /\ e.c = obs.c))
       => ~call.gatheringDigits

(***************************************************************************)
(* Claims about barge-in.                                                  *)
(***************************************************************************)
\* C26: in every reachable state a session does not have both a non-empty
\* barge-in buffer and an outstanding explicit digit collection: no
\* collection is requested while a buffer is pending, and no buffer is
\* pending while the completion of a requested collection is still to come.
C26_BufferExcludesCollection ==
  \A c \in Calls :
    (activeCalls[c].present /\ activeCalls[c].bargeInBuffer # <<>>)
      => /\ ~(obs.c = c /\ Alive(c) /\ HasCmd(obs.cmds, "gather"))
         /\ \A e \in net : ~(e.type = "call.gather.ended" /\ e.c = c)

\* C27: no raw digit is lost, duplicated or reordered: the handler of a raw
\* digit that resumes after its stop-speaking request leaves the buffer equal
\* to the buffer it found followed by its digit, also when another raw digit
\* was processed while it was suspended; and a flush by procesarBargeIn hands
\* the lookup exactly the buffer without its trailing terminator.
C27_DigitsKeptInOrder ==
  [][/\ \A t \in tasks :
          (/\ t.pc = "dtmf.stop"
           /\ obs'.op = "handleDtmfReceived.stopped"
           /\ t \notin tasks'
           /\ activeCalls[t.c].present)
            => activeCalls'[t.c].bargeInBuffer =
                 activeCalls[t.c].bargeInBuffer \o t.digits
     /\ (/\ obs'.op = "procesarBargeIn"
         /\ HasCmd(obs'.cmds, "obtenerExpediente"))
          => obs'.cmds =
               <<Cmd("obtenerExpediente",
                     SinTerminador(activeCalls[obs'.c].bargeInBuffer))>>]_vars

\* C28: each barge-in buffer is flushed exactly once and none is left
\* unflushed: while the session is stored, a non-empty buffer changes only by
\* a raw digit appended to it or by its flush, a flush by the quiet-window
\* timer happens only with the terminator in the buffer or with no digit
\* received since the timer was armed or the quiet window over, and no other
\* step empties, replaces or restores a buffer.
C28_FlushedOnce ==
  [][\A c \in Calls :
       (/\ activeCalls[c].present
        /\ activeCalls'[c].present
        /\ activeCalls'[c].bargeInBuffer # activeCalls[c].bargeInBuffer)
         => /\ obs'.c = c
            /\ obs'.op \in {"handleDtmfReceived", "handleDtmfReceived.stopped",
                            "procesarBargeIn"}
            /\ obs'.op = "procesarBargeIn" => activeCalls'[c].bargeInBuffer = <<>>]_vars

(***************************************************************************)
(* Claims about the watchdog and the maximum duration.                     *)
(***************************************************************************)
\* C29: the inactivity watchdog never terminates a call that is in a
\* transfer-related phase: when it fires for a session whose stage is
\* 'transferencia' or whose hand-off is pending it sends nothing, and the
\* hangup it scheduled is not sent to such a session either.
C29_WatchdogSparesHandOff ==
  LET call == activeCalls[obs.c] IN
  (/\ call.present
   /\ call.etapa = "transferencia" \/ call.transferPending)
    => /\ obs.op = "handleInactivity" => obs.cmds = <<>>
       /\ obs.op = "hangupTimeout" =>
            \A i \in 1..Len(obs.cmds) : obs.cmds[i] # Cmd("hangup", "inactividad")

\* C30: the max-duration timer is armed once, by the step that creates the
\* session, and by no later step; when it fires for a stored session the
\* handler sends gather_stop, then the fixed notice, then suppression_stop
\* and hangup, each stage being followed by the next.
C30_MaxDurationSequence ==
  [][/\ \A tm \in timers' \ timers :
          tm.kind = "maxDuration" =>
            /\ obs'.op = "handleIncomingCall"
            /\ \A old \in timers : ~(old.kind = "maxDuration" /\ old.c = tm.c)
     /\ \A tm \in timers \ timers' :
          (/\ tm.kind = "maxDuration"
           /\ obs'.op = "handleMaxDuration"
           /\ activeCalls[tm.c].present)
            => /\ obs'.cmds = <<Cmd("gather_stop", "")>>
               /\ \E t \in tasks' \ tasks : t.pc = "maxDuration.stop"
     /\ \A t \in tasks \ tasks' :
          t.pc = "maxDuration.stop" =>
            /\ obs'.cmds = <<Speak("DURACION_MAXIMA")>>
            /\ \E u \in tasks' \ tasks : u.pc = "maxDuration.spoken"
     /\ \A t \in tasks \ tasks' :
          t.pc = "maxDuration.spoken" =>
            obs'.cmds = <<Cmd("suppression_stop", ""), Cmd("hangup", "")>>]_vars

(***************************************************************************)
(* Claims about the end of a call.                                         *)
(***************************************************************************)
\* C31: at most one hangup command is issued per session, whichever paths
\* schedule one and however often the triggering notification is delivered:
\* no step issues two, and none issues one for a leg that has ended (where
\* the caller never hangs up, a leg that has ended was ended by a hangup
\* command).
C31_OneHangup ==
  [][/\ Cardinality({i \in 1..Len(obs'.cmds) : obs'.cmds[i][1] = "hangup"}) <= 1
     /\ HasCmd(obs'.cmds, "hangup") => gw[obs'.c] # "ended"]_vars

\* C32: every hangup command is preceded, in the same session, by a speak
\* command the gateway accepted, carrying the notice or apology of that
\* path: a step that schedules a hangup has itself sent a speak command to
\* a leg that was live, also when it is the error path of a handler.
C32_SpokenBeforeHangup ==
  [][(\E tm \in timers' \ timers : tm.kind = "hangup")
       => /\ HasCmd(obs'.cmds, "speak")
          /\ Alive(obs'.c)]_vars

\* C33: when answering or transferring is rejected with status 422 the
\* action is abandoned: the session is removed from the store and nothing
\* further is sent for the call; in particular no handler is left waiting to
\* dial the support number again.
C33_PermanentFailureDrops ==
  [][(\/ obs'.cmds = <<Cmd("answer.rejected", "")>>
      \/ obs'.cmds = <<Cmd("transfer.rejected", "422")>>)
       => /\ ~activeCalls'[obs'.c].present
          /\ \A t \in tasks' : t.c = obs'.c => t.pc # "transfer.errWait"]_vars

(***************************************************************************)
(* Claims about the menu.                                                  *)
(***************************************************************************)
\* C34: when the lookup made for a menu option returns, with a record or
\* with nothing, the handler speaks an answer and schedules the menu again;
\* the processing-error message is not spoken (the leg is live), for every
\* option and both case statuses.
C34_AbsentIsNoData ==
  [][obs'.op = "procesarOpcionMenu.lookup"
       => /\ \A i \in 1..Len(obs'.cmds) : obs'.cmds[i] # Speak("ERROR_PROCESAMIENTO")
          /\ \E tm \in timers' \ timers : tm.kind = "menu" /\ tm.c = obs'.c]_vars

\* C35: a digit other than 5 processed in the menu stage leaves the session
\* as it is (stage, counters, current case), and the menu is presented again
\* by the timer only to a session that is still in the menu stage when the
\* delay is over.
C35_MenuStays ==
  [][/\ \A ds \in scn.ops \ {<<"5">>} :
          (/\ obs'.op = "handleGatherEnded"
           /\ obs'.ev = {<<"call.gather.ended", ds>>}
           /\ activeCalls[obs'.c].present
           /\ activeCalls[obs'.c].etapa = "menu_principal")
            => activeCalls'[obs'.c] = activeCalls[obs'.c]
     /\ (obs'.op = "menuTimeout" /\ HasCmd(obs'.cmds, "gather"))
          => /\ activeCalls[obs'.c].present
             /\ activeCalls[obs'.c].etapa = "menu_principal"]_vars

(***************************************************************************)
(* Claims about the counters of a session.                                 *)
(***************************************************************************)
\* C36: in every reachable state expedientesConsultados is the number of
\* distinct case numbers looked up with success in the call, that is the
\* number of keys of consultasPorExpediente: a second lookup of a case raises
\* the count of that case and not expedientesConsultados.
C36_DistinctCases ==
  \A c \in Calls :
    activeCalls[c].present =>
      activeCalls[c].expedientesConsultados =
        Cardinality(DOMAIN activeCalls[c].consultasPorExpediente)

(***************************************************************************)
(* Claims about the attempt ceiling of part_000.                           *)
(***************************************************************************)
\* C37: with MAX_TRANSFER_ATTEMPTS = 3 a session sends at most three
\* transfer requests, one per attempt number; the abandonment runs once (the
\* apology is spoken to a session not yet marked failed, which it leaves
\* marked and without a pending transfer timeout), and no transfer request
\* is sent for a session marked failed.
C37_ThreeDialsThenAbandon ==
  [][LET c == obs'.c IN
     /\ hist'[c].marcados \subseteq 1..MAX_TRANSFER_ATTEMPTS
     /\ ~hist'[c].repetido
     /\ HasCmd(obs'.cmds, "transfer")
          => ~(activeCalls[c].present /\ activeCalls[c].transferFallida)
     /\ (\E i \in 1..Len(obs'.cmds) : obs'.cmds[i] = Speak("TRANSFERENCIA_FALLIDA"))
          => /\ ~activeCalls[c].transferFallida
             /\ activeCalls'[c].transferFallida
             /\ \A tm \in timers' : ~(tm.kind = "transferTimeout" /\ tm.c = c)]_vars

C39_ReplayedStartIsSafe ==
  [][(/\ obs'.op = "handleIncomingCall"
      /\ activeCalls[obs'.c].present)
       => /\ activeCalls'[obs'.c] = activeCalls[obs'.c]
          /\ \A tm \in timers' \ timers : tm.kind # "maxDuration"]_vars

\* C40: a session whose stage is transferencia keeps that stage for as long
\* as it stays in the store, whatever handler writes it next.
C40_TransferStageOneWay ==
  [][\A c \in Calls :
       (/\ activeCalls[c].present
        /\ activeCalls[c].etapa = "transferencia"
        /\ activeCalls'[c].present)
         => activeCalls'[c].etapa = "transferencia"]_vars

====
